---- MODULE Spec2Model ----
(***************************************************************************)
(* Six-vertex Monte Carlo sampler (docs/reference/attached_assets/main.c). *)
(*                                                                         *)
(* The state is the program's globals after initialisation: the two        *)
(* lattices (type and height of every cell), the weights and rho, the two  *)
(* volume counters, the drawn cell, the four flippability flags and the    *)
(* two flip counters.  One step of the model is one pass of the driver     *)
(* loop of main().  Real numbers are kept exact: a weight ratio is the     *)
(* pair (product of four weights, rho), a draw rand()/RAND_MAX is the pair *)
(* (k, RandMax), and a comparison of the two is done by cross              *)
(* multiplication.                                                         *)
(***************************************************************************)
EXTENDS Integers, Sequences, FiniteSets

VARIABLES
    nrows, ncols,                 \* lattice size
    wts, rho,                     \* the six weights and the normaliser
    STICKY,                       \* the build option (0 or 1)
    matrix, matrix2,              \* upper and lower lattice
    matrixvol, matrixvol2,        \* tracked volumes
    flipchoicerow, flipchoicecol, \* the drawn cell
    vcanfliphigh1, vcanfliplow1,  \* flippability of the upper lattice
    vcanfliphigh2, vcanfliplow2,  \* flippability of the lower lattice
    flipcompleted, flipfailed,    \* counters
    steps,                        \* number of steps
    tprint, pprint, cprint,       \* file-index counters of the sinks
    printat,                      \* main's threshold for each sink
    interval,                     \* the printout interval of each sink
    files,                        \* what the sinks wrote
    pc,                           \* where main is: "open", "loop" or "exit"
    exitstatus,                   \* the value main returned, once pc = "exit"
    replay,                       \* a second run of the same build on the same
                                  \* input, fed the same random values
    iceinput                      \* history: the input lattices obeyed the ice rule

vars == <<nrows, ncols, wts, rho, STICKY, matrix, matrix2, matrixvol,
          matrixvol2, flipchoicerow, flipchoicecol, vcanfliphigh1,
          vcanfliplow1, vcanfliphigh2, vcanfliplow2, flipcompleted,
          flipfailed, steps, tprint, pprint, cprint, printat, interval,
          files, pc, exitstatus, replay, iceinput>>

(***************************************************************************)
(* Bounds of the model.                                                    *)
(***************************************************************************)
\* the driver loop is cut once this many draws were counted (completed + failed)
MaxFlips == 2
\* granularity of a random draw: rand() ranges over 0..RandMax
RandMax == 2

LOW == 0
HIGH == 1

\* the character '0'
Zero == 48

Types == 0..5

\* Faulty variant: the bytes are taken column by column.
parseColumnMajor(data, R, C) ==
    [i \in 0..(R - 1) |-> [j \in 0..(C - 1) |->
        [type |-> data[j * R + i + 1] - Zero, height |-> 0]]]

(***************************************************************************)
(* parse: the first nrows*ncols bytes of the file, row major, each byte    *)
(* minus '0'.  A file is a sequence of character codes.                    *)
(***************************************************************************)
parse(data, R, C) ==
    [i \in 0..(R - 1) |-> [j \in 0..(C - 1) |->
        [type |-> data[i * C + j + 1] - Zero, height |-> 0]]]

(***************************************************************************)
(* setheights: a running count per row of the types 0, 2 and 5; the sum    *)
(* of all the counts is returned.                                          *)
(***************************************************************************)
\* Faulty variant: the types counted are 0, 2 and 4.
RECURSIVE current1WrongType(_, _, _)
current1WrongType(M, i, j) ==
    IF j < 0 THEN 0
    ELSE current1WrongType(M, i, j - 1)
         + (IF M[i][j].type = 0 \/ M[i][j].type = 2 \/ M[i][j].type = 4
            THEN 1 ELSE 0)

RECURSIVE current1(_, _, _)
current1(M, i, j) ==
    IF j < 0 THEN 0
    ELSE current1(M, i, j - 1)
         + (IF M[i][j].type = 0 \/ M[i][j].type = 2 \/ M[i][j].type = 5
            THEN 1 ELSE 0)

RECURSIVE total1(_, _, _, _, _)
total1(M, R, C, i, j) ==
    IF i < 0 THEN 0
    ELSE IF j < 0 THEN total1(M, R, C, i - 1, C - 1)
    ELSE total1(M, R, C, i, j - 1) + current1(M, i, j)

setheights(M, R, C) ==
    [m |-> [i \in 0..(R - 1) |-> [j \in 0..(C - 1) |->
                [type |-> M[i][j].type, height |-> current1(M, i, j)]]],
     total |-> total1(M, R, C, R - 1, C - 1)]

RECURSIVE current2(_, _, _)
current2(M, i, j) ==
    IF j < 0 THEN 0
    ELSE current2(M, i, j - 1)
         + (IF M[i][j].type = 0 \/ M[i][j].type = 2 \/ M[i][j].type = 5
            THEN 1 ELSE 0)

RECURSIVE total2(_, _, _, _, _)
total2(M, R, C, i, j) ==
    IF i < 0 THEN 0
    ELSE IF j < 0 THEN total2(M, R, C, i - 1, C - 1)
    ELSE total2(M, R, C, i, j - 1) + current2(M, i, j)

setheights2(M, R, C) ==
    [m |-> [i \in 0..(R - 1) |-> [j \in 0..(C - 1) |->
                [type |-> M[i][j].type, height |-> current2(M, i, j)]]],
     total |-> total2(M, R, C, R - 1, C - 1)]

(***************************************************************************)
(* definerho: rho starts at 0 and is raised to every candidate that        *)
(* exceeds it.  A candidate is a product of four weights or a sum of two   *)
(* such products; the lists below are those of the source, in its order.   *)
(***************************************************************************)
Prod(w, q) == w[q[1]] * w[q[2]] * w[q[3]] * w[q[4]]

\* "down normal flip possibilities"
DownNormal ==
    << <<1,4,5,4>>, <<1,4,5,3>>, <<1,4,0,4>>, <<1,4,0,3>>,
       <<1,2,5,4>>, <<1,2,5,3>>, <<1,2,0,4>>, <<1,2,0,3>> >>

\* "up normal flip possibilities"
UpNormal ==
    << <<1,3,4,5>>, <<1,3,4,2>>, <<1,3,0,5>>, <<1,3,0,2>>,
       <<1,5,4,5>>, <<1,5,4,2>>, <<1,5,0,5>>, <<1,5,0,2>> >>

\* "biflip possibilities": the first product of each of the eight blocks
BiflipFirst ==
    << <<5,4,5,4>>, <<5,4,5,3>>, <<5,4,0,4>>, <<5,4,0,3>>,
       <<5,2,5,4>>, <<5,2,5,3>>, <<5,2,0,4>>, <<5,2,0,3>> >>

\* the second product, the same eight in every block
BiflipSecond ==
    << <<4,3,4,5>>, <<4,3,4,2>>, <<4,3,0,5>>, <<4,3,0,2>>,
       <<4,5,4,5>>, <<4,5,4,2>>, <<4,5,1,5>>, <<4,5,1,2>> >>

RhoCandidates(w) ==
    [n \in 1..8 |-> Prod(w, DownNormal[n])]
    \o [n \in 1..8 |-> Prod(w, UpNormal[n])]
    \o [n \in 1..64 |-> Prod(w, BiflipFirst[((n - 1) \div 8) + 1])
                        + Prod(w, BiflipSecond[((n - 1) % 8) + 1])]

\* Faulty variant: only the first possibility is taken.
definerhoFirst(w) == RhoCandidates(w)[1]

\* Faulty variant: the 64 bi-flip possibilities are left out.
definerhoNoBiflip(w) ==
    LET cands == RhoCandidates(w)
        S     == {cands[n] : n \in 1..16} \cup {0}
    IN  CHOOSE m \in S : \A x \in S : x <= m

\* Each of the 80 ifs raises rho to its candidate when the candidate exceeds
\* it, so the value returned is the greatest of 0 and the 80 candidates.
definerho(w) ==
    LET cands == RhoCandidates(w)
        S     == {cands[n] : n \in 1..80} \cup {0}
    IN  CHOOSE m \in S : \A x \in S : x <= m


(***************************************************************************)
(* getweightratio: the types the four cells of the move will have, their   *)
(* weights multiplied, over rho.  The ratio is returned exact, as          *)
(* numerator and denominator, with the four post-move types it multiplied. *)
(* w_ is the weight array and r the value of rho.                          *)
(***************************************************************************)

\* Faulty variant: for UP the right cell is relabelled 3 -> 4 and 4 -> 2
\* where the flip writes 3 -> 5 and 4 -> 2.
getweightratioOtherRight(w_, r, M, rpos, cpos, type) ==
    LET dr == IF type # 0 THEN -1 ELSE 1
        dc == IF type # 0 THEN 1 ELSE -1
        up == [base |-> <<4, 1, 2, 3, 4, 1>>, d |-> <<0, 4, 2, 3, 4, 0>>,
               x    |-> <<0, 1, 2, 4, 2, 5>>, y |-> <<0, 1, 5, 3, 3, 5>>]
        dn == [base |-> <<5, 1, 2, 3, 1, 5>>, d |-> <<0, 5, 2, 3, 0, 5>>,
               x    |-> <<0, 1, 2, 4, 4, 2>>, y |-> <<0, 1, 4, 3, 4, 3>>]
        T  == IF type # 0 THEN up ELSE dn
        base   == T.base[M[rpos][cpos].type + 1]
        xshift == T.x[M[rpos][cpos + dc].type + 1]
        yshift == T.y[M[rpos + dr][cpos].type + 1]
        dshift == T.d[M[rpos + dr][cpos + dc].type + 1]
    IN  [num |-> w_[base] * w_[xshift] * w_[yshift] * w_[dshift], den |-> r,
         base |-> base, xshift |-> xshift, yshift |-> yshift, dshift |-> dshift]

getweightratio(w_, r, M, rpos, cpos, type) ==
    LET xshift0 == M[rpos][cpos - 1 + (2 * type)].type
        yshift0 == M[rpos + 1 - (2 * type)][cpos].type
        dshift0 == M[rpos + 1 - (2 * type)][cpos - 1 + (2 * type)].type
        base0   == M[rpos][cpos].type
        \* each pair of ifs runs in order, the second on the result of the first
        baseA   == IF type # 0
                   THEN (IF base0 = 0 THEN 4 ELSE base0)
                   ELSE (IF base0 = 4 THEN 1 ELSE base0)
        base    == IF type # 0
                   THEN (IF baseA = 5 THEN 1 ELSE baseA)
                   ELSE (IF baseA = 0 THEN 5 ELSE baseA)
        dshiftA == IF type # 0
                   THEN (IF dshift0 = 1 THEN 4 ELSE dshift0)
                   ELSE (IF dshift0 = 4 THEN 0 ELSE dshift0)
        dshift  == IF type # 0
                   THEN (IF dshiftA = 5 THEN 0 ELSE dshiftA)
                   ELSE (IF dshiftA = 1 THEN 5 ELSE dshiftA)
        xshiftA == IF type # 0
                   THEN (IF xshift0 = 3 THEN 5 ELSE xshift0)
                   ELSE (IF xshift0 = 5 THEN 2 ELSE xshift0)
        xshift  == IF type # 0
                   THEN (IF xshiftA = 4 THEN 2 ELSE xshiftA)
                   ELSE (IF xshiftA = 3 THEN 4 ELSE xshiftA)
        yshiftA == IF type # 0
                   THEN (IF yshift0 = 2 THEN 5 ELSE yshift0)
                   ELSE (IF yshift0 = 5 THEN 3 ELSE yshift0)
        yshift  == IF type # 0
                   THEN (IF yshiftA = 4 THEN 3 ELSE yshiftA)
                   ELSE (IF yshiftA = 2 THEN 4 ELSE yshiftA)
    IN  [num |-> w_[base] * w_[xshift] * w_[yshift] * w_[dshift], den |-> r,
         base |-> base, xshift |-> xshift, yshift |-> yshift, dshift |-> dshift]

getweightratio2(w_, r, M, rpos, cpos, type) ==
    LET xshift0 == M[rpos][cpos - 1 + (2 * type)].type
        yshift0 == M[rpos + 1 - (2 * type)][cpos].type
        dshift0 == M[rpos + 1 - (2 * type)][cpos - 1 + (2 * type)].type
        base0   == M[rpos][cpos].type
        \* each pair of ifs runs in order, the second on the result of the first
        baseA   == IF type # 0
                   THEN (IF base0 = 0 THEN 4 ELSE base0)
                   ELSE (IF base0 = 4 THEN 1 ELSE base0)
        base    == IF type # 0
                   THEN (IF baseA = 5 THEN 1 ELSE baseA)
                   ELSE (IF baseA = 0 THEN 5 ELSE baseA)
        dshiftA == IF type # 0
                   THEN (IF dshift0 = 1 THEN 4 ELSE dshift0)
                   ELSE (IF dshift0 = 4 THEN 0 ELSE dshift0)
        dshift  == IF type # 0
                   THEN (IF dshiftA = 5 THEN 0 ELSE dshiftA)
                   ELSE (IF dshiftA = 1 THEN 5 ELSE dshiftA)
        xshiftA == IF type # 0
                   THEN (IF xshift0 = 3 THEN 5 ELSE xshift0)
                   ELSE (IF xshift0 = 5 THEN 2 ELSE xshift0)
        xshift  == IF type # 0
                   THEN (IF xshiftA = 4 THEN 2 ELSE xshiftA)
                   ELSE (IF xshiftA = 3 THEN 4 ELSE xshiftA)
        yshiftA == IF type # 0
                   THEN (IF yshift0 = 2 THEN 5 ELSE yshift0)
                   ELSE (IF yshift0 = 5 THEN 3 ELSE yshift0)
        yshift  == IF type # 0
                   THEN (IF yshiftA = 4 THEN 3 ELSE yshiftA)
                   ELSE (IF yshiftA = 2 THEN 4 ELSE yshiftA)
    IN  [num |-> w_[base] * w_[xshift] * w_[yshift] * w_[dshift], den |-> r,
         base |-> base, xshift |-> xshift, yshift |-> yshift, dshift |-> dshift]

\* the cells getweightratio and getweightratio2 read: xshift, yshift,
\* dshift and base
getweightratioCells(rpos, cpos, type) ==
    {<<rpos, cpos - 1 + (2 * type)>>, <<rpos + 1 - (2 * type), cpos>>,
     <<rpos + 1 - (2 * type), cpos - 1 + (2 * type)>>, <<rpos, cpos>>}

\* the cells updatepositions and updatepositions2 test and assign
updatepositionsCells(rpos, cpos, type) ==
    IF type # 0
    THEN {<<rpos, cpos>>, <<rpos - 1, cpos + 1>>, <<rpos, cpos + 1>>,
          <<rpos - 1, cpos>>}
    ELSE {<<rpos, cpos>>, <<rpos + 1, cpos - 1>>, <<rpos, cpos - 1>>,
          <<rpos + 1, cpos>>}

\* the cells executeflip and executeflip2 touch: those of updatepositions
\* and the cell whose height changes
executeflipCells(rpos, cpos, type) ==
    updatepositionsCells(rpos, cpos, type)
    \cup (IF type # 0 THEN {<<rpos, cpos>>} ELSE {<<rpos + 1, cpos - 1>>})

(***************************************************************************)
(* getflippablepositionrow / getflippablepositioncol:                      *)
(* (int) n * (rand() / (RAND_MAX + 1.0)), for a draw k of rand().          *)
(***************************************************************************)
getflippablepositionrow(R, k) == (R * k) \div (RandMax + 1)

getflippablepositioncol(C, k) == (C * k) \div (RandMax + 1)

\* Faulty variant: UP tests the base against the types of DOWN (0 and 4).
getisflippableWrongBase(M, M2, R, C, sticky, rpos, cpos, type) ==
    IF rpos < 0 \/ rpos >= R THEN 0
    ELSE IF cpos < 0 \/ cpos >= C THEN 0
    ELSE IF type # 0 THEN
        IF rpos > 0 /\ cpos < (C - 1)
           /\ (sticky = 1 => M[rpos][cpos].height > M2[rpos][cpos].height)
           /\ (M[rpos][cpos].type = 0 \/ M[rpos][cpos].type = 4)
           /\ (M[rpos - 1][cpos + 1].type = 1 \/ M[rpos - 1][cpos + 1].type = 5)
        THEN 1 ELSE 0
    ELSE
        IF rpos < (R - 1) /\ cpos > 0
           /\ (M[rpos][cpos].type = 0 \/ M[rpos][cpos].type = 4)
           /\ (M[rpos + 1][cpos - 1].type = 1 \/ M[rpos + 1][cpos - 1].type = 4)
        THEN 1 ELSE 0

\* Faulty variant: UP in row 0 or in the last column is admitted on the type
\* of the base alone.
getisflippableNoBounds(M, M2, R, C, sticky, rpos, cpos, type) ==
    IF rpos < 0 \/ rpos >= R THEN 0
    ELSE IF cpos < 0 \/ cpos >= C THEN 0
    ELSE IF type # 0 THEN
        IF (sticky = 1 => M[rpos][cpos].height > M2[rpos][cpos].height)
           /\ (M[rpos][cpos].type = 0 \/ M[rpos][cpos].type = 5)
           /\ (rpos > 0 /\ cpos < (C - 1) =>
                  (M[rpos - 1][cpos + 1].type = 1 \/ M[rpos - 1][cpos + 1].type = 5))
        THEN 1 ELSE 0
    ELSE
        IF rpos < (R - 1) /\ cpos > 0
           /\ (M[rpos][cpos].type = 0 \/ M[rpos][cpos].type = 4)
           /\ (M[rpos + 1][cpos - 1].type = 1 \/ M[rpos + 1][cpos - 1].type = 4)
        THEN 1 ELSE 0

\* Faulty variant: DOWN on the lower lattice without the height test.
getisflippable2NoGuard(M, M2, R, C, sticky, rpos, cpos, type) ==
    IF rpos < 0 \/ rpos >= R THEN 0
    ELSE IF cpos < 0 \/ cpos >= C THEN 0
    ELSE IF type # 0 THEN
        IF rpos > 0 /\ cpos < (C - 1)
           /\ (M2[rpos][cpos].type = 0 \/ M2[rpos][cpos].type = 5)
           /\ (M2[rpos - 1][cpos + 1].type = 1 \/ M2[rpos - 1][cpos + 1].type = 5)
        THEN 1 ELSE 0
    ELSE
        IF rpos < (R - 1) /\ cpos > 0
           /\ (M2[rpos][cpos].type = 0 \/ M2[rpos][cpos].type = 4)
           /\ (M2[rpos + 1][cpos - 1].type = 1 \/ M2[rpos + 1][cpos - 1].type = 4)
        THEN 1 ELSE 0

(***************************************************************************)
(* getisflippable: M is the upper lattice, M2 the lower; sticky is the     *)
(* build option.  Every return of the source is one branch here.           *)
(***************************************************************************)
getisflippable(M, M2, R, C, sticky, rpos, cpos, type) ==
    IF rpos < 0 \/ rpos >= R THEN 0
    ELSE IF cpos < 0 \/ cpos >= C THEN 0
    ELSE IF type # 0 THEN
        IF rpos > 0 /\ cpos < (C - 1)
           /\ (sticky = 1 => M[rpos][cpos].height > M2[rpos][cpos].height)
           /\ (M[rpos][cpos].type = 0 \/ M[rpos][cpos].type = 5)
           /\ (M[rpos - 1][cpos + 1].type = 1 \/ M[rpos - 1][cpos + 1].type = 5)
        THEN 1 ELSE 0
    ELSE
        IF rpos < (R - 1) /\ cpos > 0
           /\ (M[rpos][cpos].type = 0 \/ M[rpos][cpos].type = 4)
           /\ (M[rpos + 1][cpos - 1].type = 1 \/ M[rpos + 1][cpos - 1].type = 4)
        THEN 1 ELSE 0

getisflippable2(M, M2, R, C, sticky, rpos, cpos, type) ==
    IF rpos < 0 \/ rpos >= R THEN 0
    ELSE IF cpos < 0 \/ cpos >= C THEN 0
    ELSE IF type # 0 THEN
        IF rpos > 0 /\ cpos < (C - 1)
           /\ (M2[rpos][cpos].type = 0 \/ M2[rpos][cpos].type = 5)
           /\ (M2[rpos - 1][cpos + 1].type = 1 \/ M2[rpos - 1][cpos + 1].type = 5)
        THEN 1 ELSE 0
    ELSE
        IF rpos < (R - 1) /\ cpos > 0
           /\ (sticky = 1 => M2[rpos][cpos].height < M[rpos][cpos].height)
           /\ (M2[rpos][cpos].type = 0 \/ M2[rpos][cpos].type = 4)
           /\ (M2[rpos + 1][cpos - 1].type = 1 \/ M2[rpos + 1][cpos - 1].type = 4)
        THEN 1 ELSE 0

(***************************************************************************)
(* The relabelling table as the documentation states it: for each of the   *)
(* four roles, the type after the move of a cell whose type before it is   *)
(* t, at index t + 1.  d is the diagonal cell (upper-right for UP,         *)
(* lower-left for DOWN), x the cell in the row of the base (right, left),  *)
(* y the cell in its column (up, down).                                    *)
(***************************************************************************)
UpTable ==
    [base |-> <<4, 1, 2, 3, 4, 1>>, d |-> <<0, 4, 2, 3, 4, 0>>,
     x    |-> <<0, 1, 2, 5, 2, 5>>, y |-> <<0, 1, 5, 3, 3, 5>>]

DownTable ==
    [base |-> <<5, 1, 2, 3, 1, 5>>, d |-> <<0, 5, 2, 3, 0, 5>>,
     x    |-> <<0, 1, 2, 4, 4, 2>>, y |-> <<0, 1, 4, 3, 4, 3>>]

\* M with the four cells of the move rewritten, each once, by up or by down
RewriteBy(M, rpos, cpos, type, up, down) ==
    LET T  == IF type # 0 THEN up ELSE down
        dr == IF type # 0 THEN -1 ELSE 1
        dc == IF type # 0 THEN 1 ELSE -1
    IN  [M EXCEPT ![rpos][cpos].type = T.base[@ + 1],
                  ![rpos][cpos + dc].type = T.x[@ + 1],
                  ![rpos + dr][cpos].type = T.y[@ + 1],
                  ![rpos + dr][cpos + dc].type = T.d[@ + 1]]

\* Faulty variant: the diagonal cell is left as it was.
updatepositionsNoDiagonal(M, rpos, cpos, type) ==
    RewriteBy(M, rpos, cpos, type,
              [UpTable EXCEPT !.d = <<0, 1, 2, 3, 4, 5>>],
              [DownTable EXCEPT !.d = <<0, 1, 2, 3, 4, 5>>])

\* Faulty variant: the second if of the right cell of UP tests 5, not 4, so
\* that a 3 becomes 5 and then 2.
updatepositionsChained(M, rpos, cpos, type) ==
    RewriteBy(M, rpos, cpos, type,
              [UpTable EXCEPT !.x = <<0, 1, 2, 2, 4, 2>>], DownTable)

\* Faulty variant: the base of UP is written 6 where 4 is meant.
updatepositions2Typo(M, rpos, cpos, type) ==
    RewriteBy(M, rpos, cpos, type,
              [UpTable EXCEPT !.base = <<6, 1, 2, 3, 4, 1>>], DownTable)

(***************************************************************************)
(* updatepositions: sixteen ifs in the order of the source, each reading   *)
(* the lattice as the ifs before it left it.                               *)
(***************************************************************************)

\* one if of the source: if(M[r][c].type == from) M[r][c].type = to;
Retype(M, r, c, from, to) ==
    IF M[r][c].type = from THEN [M EXCEPT ![r][c].type = to] ELSE M

updatepositions(M, rpos, cpos, type) ==
    IF type # 0 THEN
        LET a1 == Retype(M,  rpos, cpos, 0, 4)
            a2 == Retype(a1, rpos, cpos, 5, 1)
            a3 == Retype(a2, rpos - 1, cpos + 1, 1, 4)
            a4 == Retype(a3, rpos - 1, cpos + 1, 5, 0)
            a5 == Retype(a4, rpos, cpos + 1, 3, 5)
            a6 == Retype(a5, rpos, cpos + 1, 4, 2)
            a7 == Retype(a6, rpos - 1, cpos, 2, 5)
            a8 == Retype(a7, rpos - 1, cpos, 4, 3)
        IN  a8
    ELSE
        LET b1 == Retype(M,  rpos, cpos, 4, 1)
            b2 == Retype(b1, rpos, cpos, 0, 5)
            b3 == Retype(b2, rpos + 1, cpos - 1, 4, 0)
            b4 == Retype(b3, rpos + 1, cpos - 1, 1, 5)
            b5 == Retype(b4, rpos, cpos - 1, 5, 2)
            b6 == Retype(b5, rpos, cpos - 1, 3, 4)
            b7 == Retype(b6, rpos + 1, cpos, 5, 3)
            b8 == Retype(b7, rpos + 1, cpos, 2, 4)
        IN  b8

updatepositions2(M, rpos, cpos, type) ==
    IF type # 0 THEN
        LET a1 == Retype(M,  rpos, cpos, 0, 4)
            a2 == Retype(a1, rpos, cpos, 5, 1)
            a3 == Retype(a2, rpos - 1, cpos + 1, 1, 4)
            a4 == Retype(a3, rpos - 1, cpos + 1, 5, 0)
            a5 == Retype(a4, rpos, cpos + 1, 3, 5)
            a6 == Retype(a5, rpos, cpos + 1, 4, 2)
            a7 == Retype(a6, rpos - 1, cpos, 2, 5)
            a8 == Retype(a7, rpos - 1, cpos, 4, 3)
        IN  a8
    ELSE
        LET b1 == Retype(M,  rpos, cpos, 4, 1)
            b2 == Retype(b1, rpos, cpos, 0, 5)
            b3 == Retype(b2, rpos + 1, cpos - 1, 4, 0)
            b4 == Retype(b3, rpos + 1, cpos - 1, 1, 5)
            b5 == Retype(b4, rpos, cpos - 1, 5, 2)
            b6 == Retype(b5, rpos, cpos - 1, 3, 4)
            b7 == Retype(b6, rpos + 1, cpos, 5, 3)
            b8 == Retype(b7, rpos + 1, cpos, 2, 4)
        IN  b8

\* Faulty variant: the height of the diagonal cell follows that of the base.
executeflipBothHeights(M, vol, rpos, cpos, type) ==
    IF type # 0
    THEN [m |-> [updatepositions(M, rpos, cpos, type)
                     EXCEPT ![rpos][cpos].height = @ - 1,
                            ![rpos - 1][cpos + 1].height = @ - 1],
          vol |-> vol - 1]
    ELSE [m |-> [updatepositions(M, rpos, cpos, type)
                     EXCEPT ![rpos + 1][cpos - 1].height = @ + 1,
                            ![rpos][cpos].height = @ + 1],
          vol |-> vol + 1]

\* Faulty variant: the types and the volume change, no height does.
executeflipNoHeight(M, vol, rpos, cpos, type) ==
    IF type # 0
    THEN [m |-> updatepositions(M, rpos, cpos, type), vol |-> vol - 1]
    ELSE [m |-> updatepositions(M, rpos, cpos, type), vol |-> vol + 1]

(***************************************************************************)
(* executeflip: the four rewrites, then one height and the volume.         *)
(***************************************************************************)

executeflip(M, vol, rpos, cpos, type) ==
    LET U == updatepositions(M, rpos, cpos, type)
    IN  IF type # 0
        THEN [m |-> [U EXCEPT ![rpos][cpos].height = @ - 1], vol |-> vol - 1]
        ELSE [m |-> [U EXCEPT ![rpos + 1][cpos - 1].height = @ + 1],
              vol |-> vol + 1]

\* Faulty variant: DOWN raises the height of the base, the cell the sticky
\* test reads, where the lower-left cell is meant.
executeflip2WrongCell(M, vol, rpos, cpos, type) ==
    IF type # 0
    THEN [m |-> [updatepositions2(M, rpos, cpos, type)
                     EXCEPT ![rpos][cpos].height = @ - 1], vol |-> vol - 1]
    ELSE [m |-> [updatepositions2(M, rpos, cpos, type)
                     EXCEPT ![rpos][cpos].height = @ + 1], vol |-> vol + 1]

executeflip2(M, vol, rpos, cpos, type) ==
    LET U == updatepositions2(M, rpos, cpos, type)
    IN  IF type # 0
        THEN [m |-> [U EXCEPT ![rpos][cpos].height = @ - 1], vol |-> vol - 1]
        ELSE [m |-> [U EXCEPT ![rpos + 1][cpos - 1].height = @ + 1],
              vol |-> vol + 1]


(***************************************************************************)
(* The edges of a vertex as draw_vertex draws them: 1 is a bold line.      *)
(***************************************************************************)
TopEdge(t)    == IF t \in {0, 2, 5} THEN 1 ELSE 0
BottomEdge(t) == IF t \in {0, 2, 4} THEN 1 ELSE 0
LeftEdge(t)   == IF t \in {0, 3, 4} THEN 1 ELSE 0
RightEdge(t)  == IF t \in {0, 3, 5} THEN 1 ELSE 0

(***************************************************************************)
(* print_text: the types as digits, row major, no separators.  The switch  *)
(* has a case for each of 0..5 and no default: a cell of another type      *)
(* writes nothing.                                                         *)
(***************************************************************************)
print_text(M, R, C) ==
    LET types   == [n \in 1..(R * C) |-> M[(n - 1) \div C][(n - 1) % C].type]
        written == SelectSeq(types, LAMBDA t : t \in Types)
    IN  [n \in 1..Len(written) |-> written[n] + Zero]

(***************************************************************************)
(* The input files of the model.                                           *)
(*   IceGrids(R, C): every R x C arrangement of types in which adjacent    *)
(*     cells agree on the edge they share (a six-vertex configuration).    *)
(*   FreeGrids(R, C): every R x C arrangement of types 0..5.               *)
(* Both input files hold the same lattice (upper and lower start equal).   *)
(***************************************************************************)
Cell(t) == [type |-> t, height |-> 0]

IceRows(C) ==
    {row \in [0..(C - 1) -> Types] :
        \A j \in 0..(C - 2) : RightEdge(row[j]) = LeftEdge(row[j + 1])}

\* the stacks of R compatible rows, built one row at a time
RECURSIVE IceStacks(_, _)
IceStacks(R, C) ==
    IF R = 1 THEN {<<row>> : row \in IceRows(C)}
    ELSE UNION {
        {Append(g, row) : row \in
            {x \in IceRows(C) :
                \A j \in 0..(C - 1) : BottomEdge(g[R - 1][j]) = TopEdge(x[j])}}
        : g \in IceStacks(R - 1, C)}

IceGrids(R, C) == {[i \in 0..(R - 1) |-> g[i + 1]] : g \in IceStacks(R, C)}

FreeGrids(R, C) == [0..(R - 1) -> [0..(C - 1) -> Types]]

FileOf(g, R, C) ==
    print_text([i \in 0..(R - 1) |-> [j \in 0..(C - 1) |-> Cell(g[i][j])]],
               R, C)

\* the lattice parse reads from the file of g, before any height is set
LatticeOf(g, R, C) == parse(FileOf(g, R, C), R, C)

\* the number of moves (r, c, direction) the lattice of g admits
Moves(g, R, C) ==
    Cardinality({m \in (0..(R - 1)) \X (0..(C - 1)) \X {LOW, HIGH} :
        getisflippable(LatticeOf(g, R, C), LatticeOf(g, R, C), R, C, 0,
                       m[1], m[2], m[3]) = 1})

\* the centre of a 3 x 3 lattice can flip both ways
CentreBi(g) ==
    /\ getisflippable(LatticeOf(g, 3, 3), LatticeOf(g, 3, 3), 3, 3, 0, 1, 1, HIGH) = 1
    /\ getisflippable(LatticeOf(g, 3, 3), LatticeOf(g, 3, 3), 3, 3, 0, 1, 1, LOW) = 1

\* The 3 x 3 six-vertex configurations with a bi-flip at the centre or with
\* four moves, and every 2 x 2 arrangement of types.
Inputs ==
    {[R |-> 3, C |-> 3, data |-> FileOf(g, 3, 3)] :
        g \in {x \in IceGrids(3, 3) : CentreBi(x) \/ Moves(x, 3, 3) >= 4}}
    \cup {[R |-> 2, C |-> 2, data |-> FileOf(g, 2, 2)] : g \in FreeGrids(2, 2)}

\* wts[0..5] as the user enters them
WeightChoices ==
    { <<1, 1, 1, 1, 1, 1>>, <<5, 1, 1, 1, 2, 4>> }

\* the array wts[0..5] of a sequence of six weights
WtsOf(q) == [t \in Types |-> q[t + 1]]

\* adjacent cells agree on the edge they share
EdgeConsistent(M, R, C) ==
    /\ \A i \in 0..(R - 1) : \A j \in 0..(C - 2) :
           RightEdge(M[i][j].type) = LeftEdge(M[i][j + 1].type)
    /\ \A i \in 0..(R - 2) : \A j \in 0..(C - 1) :
           BottomEdge(M[i][j].type) = TopEdge(M[i + 1][j].type)

(***************************************************************************)
(* What a run is made of: the two lattices (types and heights), the two    *)
(* volumes and the two counters.                                           *)
(***************************************************************************)
RunState ==
    [matrix |-> matrix, matrix2 |-> matrix2, matrixvol |-> matrixvol,
     matrixvol2 |-> matrixvol2, flipcompleted |-> flipcompleted,
     flipfailed |-> flipfailed]

(***************************************************************************)
(* The sinks.  main holds one threshold per sink (50000 in the source),    *)
(* raised by the sink's interval at every emission; the intervals are      *)
(* read from the arguments or the terminal.  The thresholds are brought    *)
(* forward and the intervals shortened here so that every sink becomes     *)
(* due within MaxFlips flips.                                              *)
(***************************************************************************)
\* "first printout": the start value of every threshold
FirstPrintout == 50000
\* the number of flips by which the thresholds are brought forward
Advance == 50004
\* the printout interval entered for every sink
PrintInterval == 5
\* "density printout step size", as the global starts
cdensitystep == 0

\* what print_volume appends: the sum over the cells of the running count
\* per row of the types 0, 2 and 5
RECURSIVE volumeUpTo(_, _, _)
volumeUpTo(M, C, n) ==
    IF n = 0 THEN 0
    ELSE volumeUpTo(M, C, n - 1)
         + Cardinality({l \in 0..((n - 1) % C) :
                           M[(n - 1) \div C][l].type \in {0, 2, 5}})

print_volume(M, R, C) == volumeUpTo(M, C, R * C)

\* what print_totalweight appends: the weights and, for each, the number
\* of cells of its type
print_totalweight(M, R, C, w) ==
    [t \in Types |->
        <<w[t], Cardinality({n \in 1..(R * C) :
                                M[(n - 1) \div C][(n - 1) % C].type = t})>>]

\* the cells print_cdensity reads for the step s: i and j run from s/2
\* while below R - s/2 and C - s/2, k and l from -(s/2) while below s/2 + 1
cdensityReads(R, C, s) ==
    {<<i + k, j + l>> :
        i \in (s \div 2)..(R - (s \div 2) - 1),
        j \in (s \div 2)..(C - (s \div 2) - 1),
        k \in (0 - (s \div 2))..(s \div 2),
        l \in (0 - (s \div 2))..(s \div 2)}

\* Faulty variant: k and l stop below s/2, the window loses its last row
\* and column.
cdensityOfShortWindow(M, R, C, s) ==
    LET half  == s \div 2
        rows  == R - 2 * half
        cols  == C - 2 * half
        c(i, j) == Cardinality({kl \in (-half..(half - 1)) \X (-half..(half - 1)) :
                                   M[i + kl[1]][j + kl[2]].type \in {4, 5}})
    IN  IF rows <= 0 \/ cols <= 0 THEN << >>
        ELSE [n \in 1..(rows * cols) |->
                 <<c(half + ((n - 1) \div cols), half + ((n - 1) % cols)),
                   (s + 1) * (s + 1)>>]

\* what print_cdensity writes for the step s, in the order written: for
\* every i and j of the loops, currentdensity (the number of cells of the
\* window of type 4 or 5) over (s + 1) * (s + 1), kept as the pair
cdensityOf(M, R, C, s) ==
    LET half  == s \div 2
        rows  == R - 2 * half
        cols  == C - 2 * half
        c(i, j) == Cardinality({kl \in (-half..half) \X (-half..half) :
                                   M[i + kl[1]][j + kl[2]].type \in {4, 5}})
    IN  IF rows <= 0 \/ cols <= 0 THEN << >>
        ELSE [n \in 1..(rows * cols) |->
                 <<c(half + ((n - 1) \div cols), half + ((n - 1) % cols)),
                   (s + 1) * (s + 1)>>]

print_cdensity(M, R, C) == cdensityOf(M, R, C, cdensitystep)

\* what print_pdf draws: one vertex per cell, row major
print_pdf(M, R, C) ==
    [n \in 1..(R * C) |-> M[(n - 1) \div C][(n - 1) % C].type]

\* fopen(name, "w") of the file numbered k, and the write
Written(f, k, content) ==
    [i \in (DOMAIN f) \cup {k} |-> IF i = k THEN content ELSE f[i]]

\* a file-index counter after ++ and the wrap
NextIndex(k, last) == IF k + 1 > last THEN 0 ELSE k + 1

\* the files before the first emission
NoFiles ==
    [text |-> << >>, text2 |-> << >>, pdf |-> << >>, pdf2 |-> << >>,
     volume |-> << >>, volume2 |-> << >>, totalweight |-> << >>,
     totalweight2 |-> << >>, cdensity |-> << >>, cdensity2 |-> << >>,
     cdensitypdf |-> << >>, cdensitypdf2 |-> << >>]

\* the intervals as the command line sets them, every one from argv[11]
Intervals(v) ==
    [successrate |-> v, text |-> v, pdf |-> v, volume |-> v,
     totalweight |-> v, cdensity |-> v]

\* the thresholds of main as declared
FirstThresholds ==
    [successrate |-> FirstPrintout - Advance, text |-> FirstPrintout - Advance,
     pdf |-> FirstPrintout - Advance, volume |-> FirstPrintout - Advance,
     totalweight |-> FirstPrintout - Advance,
     cdensity |-> FirstPrintout - Advance]

(***************************************************************************)
(* Everything the emission block of main can read or write.                *)
(***************************************************************************)
MainState ==
    [matrix |-> matrix, matrix2 |-> matrix2, matrixvol |-> matrixvol,
     matrixvol2 |-> matrixvol2, flipcompleted |-> flipcompleted,
     flipfailed |-> flipfailed, tprint |-> tprint, pprint |-> pprint,
     cprint |-> cprint, printat |-> printat, interval |-> interval,
     files |-> files]

(***************************************************************************)
(* The calls of the sinks, as steps on that state.  The lattice size and   *)
(* the weights are the globals.                                            *)
(***************************************************************************)
\* Faulty variant: the counter raised is flipcompleted, not tprint.
call_print_textWrongCounter(S) ==
    [S EXCEPT !.files.text = Written(@, S.tprint,
                                     print_text(S.matrix, nrows, ncols)),
              !.flipcompleted = @ + 1]

call_print_text(S) ==
    [S EXCEPT !.files.text = Written(@, S.tprint,
                                     print_text(S.matrix, nrows, ncols)),
              !.tprint = NextIndex(@, 20)]

call_print_text2(S) ==
    [S EXCEPT !.files.text2 = Written(@, S.tprint,
                                      print_text(S.matrix2, nrows, ncols))]

call_print_pdf(S) ==
    [S EXCEPT !.files.pdf = Written(@, S.pprint,
                                    print_pdf(S.matrix, nrows, ncols)),
              !.pprint = NextIndex(@, 20)]

call_print_pdf2(S) ==
    [S EXCEPT !.files.pdf2 = Written(@, S.pprint,
                                     print_pdf(S.matrix2, nrows, ncols))]

call_print_volume(S) ==
    [S EXCEPT !.files.volume = Append(@, print_volume(S.matrix, nrows, ncols))]

call_print_volume2(S) ==
    [S EXCEPT !.files.volume2 = Append(@, print_volume(S.matrix2, nrows, ncols))]

call_print_totalweight(S) ==
    [S EXCEPT !.files.totalweight =
                  Append(@, print_totalweight(S.matrix, nrows, ncols, wts))]

call_print_totalweight2(S) ==
    [S EXCEPT !.files.totalweight2 =
                  Append(@, print_totalweight(S.matrix2, nrows, ncols, wts))]

call_print_cdensity(S) ==
    [S EXCEPT !.files.cdensity = Written(@, S.cprint,
                                         print_cdensity(S.matrix, nrows, ncols)),
              !.cprint = NextIndex(@, 50)]

call_print_cdensity2(S) ==
    [S EXCEPT !.files.cdensity2 = Written(@, S.cprint,
                                          print_cdensity(S.matrix2, nrows, ncols))]

call_print_cdensitypdf(S) ==
    [S EXCEPT !.files.cdensitypdf = Written(@, S.cprint,
                                            print_cdensity(S.matrix, nrows, ncols))]

call_print_cdensitypdf2(S) ==
    [S EXCEPT !.files.cdensitypdf2 = Written(@, S.cprint,
                                             print_cdensity(S.matrix2, nrows, ncols))]

(***************************************************************************)
(* The emission block at the head of the loop body, sink by sink.  The     *)
(* success rate goes to the terminal, which is not part of the state.      *)
(***************************************************************************)
EmitSuccessrate(S) ==
    IF S.flipcompleted > S.printat.successrate - 1
    THEN [S EXCEPT !.printat.successrate = @ + S.interval.successrate]
    ELSE S

EmitText(S) ==
    IF S.flipcompleted > S.printat.text
    THEN call_print_text2(call_print_text(
             [S EXCEPT !.printat.text = @ + S.interval.text]))
    ELSE S

EmitPdf(S) ==
    IF S.flipcompleted > S.printat.pdf + 1
    THEN call_print_pdf2(call_print_pdf(
             [S EXCEPT !.printat.pdf = @ + S.interval.pdf]))
    ELSE S

EmitVolume(S) ==
    IF S.flipcompleted > S.printat.volume + 2
    THEN call_print_volume2(call_print_volume(
             [S EXCEPT !.printat.volume = @ + S.interval.volume]))
    ELSE S

EmitTotalweight(S) ==
    IF S.flipcompleted > S.printat.totalweight + 3
    THEN call_print_totalweight2(call_print_totalweight(
             [S EXCEPT !.printat.totalweight = @ + S.interval.totalweight]))
    ELSE S

\* Faulty variant: the c-density sink is due as soon as flipcompleted
\* exceeds its threshold, the 4 is left out.
EmitCdensityNoOffset(S) ==
    IF S.flipcompleted > S.printat.cdensity
    THEN call_print_cdensitypdf2(call_print_cdensitypdf(
             call_print_cdensity2(call_print_cdensity(
                 [S EXCEPT !.printat.cdensity = @ + S.interval.cdensity]))))
    ELSE S

EmitCdensity(S) ==
    IF S.flipcompleted > S.printat.cdensity + 4
    THEN call_print_cdensitypdf2(call_print_cdensitypdf(
             call_print_cdensity2(call_print_cdensity(
                 [S EXCEPT !.printat.cdensity = @ + S.interval.cdensity]))))
    ELSE S

(***************************************************************************)
(* main, initialisation: parse, parse2, definerho, setheights,             *)
(* setheights2.  The globals not assigned there start at 0.                *)
(***************************************************************************)
Init ==
    \E inp \in Inputs : \E q \in WeightChoices : \E s \in {0, 1} :
        /\ nrows = inp.R
        /\ ncols = inp.C
        /\ wts = WtsOf(q)
        /\ rho = definerho(WtsOf(q))
        /\ STICKY = s
        /\ matrix = setheights(parse(inp.data, inp.R, inp.C), inp.R, inp.C).m
        /\ matrix2 = setheights2(parse(inp.data, inp.R, inp.C), inp.R, inp.C).m
        /\ matrixvol = setheights(parse(inp.data, inp.R, inp.C), inp.R, inp.C).total
        /\ matrixvol2 = setheights2(parse(inp.data, inp.R, inp.C), inp.R, inp.C).total
        /\ flipchoicerow = 0
        /\ flipchoicecol = 0
        /\ vcanfliphigh1 = 0
        /\ vcanfliplow1 = 0
        /\ vcanfliphigh2 = 0
        /\ vcanfliplow2 = 0
        /\ flipcompleted = 0
        /\ flipfailed = 0
        /\ steps = 0
        /\ tprint = 0
        /\ pprint = 0
        /\ cprint = 0
        /\ printat = FirstThresholds
        /\ interval = Intervals(PrintInterval)
        /\ files = NoFiles
        /\ pc = "loop"
        /\ exitstatus = 0
        /\ replay = RunState
        /\ iceinput = EdgeConsistent(parse(inp.data, inp.R, inp.C), inp.R, inp.C)

(***************************************************************************)
(* flipchance >= random, for flipchance = num / den and                    *)
(* random = k / RandMax (den > 0).                                         *)
(***************************************************************************)
\* Faulty variant: flipchance > random.
AtLeastStrict(num, den, k) == num * RandMax > k * den

AtLeast(num, den, k) == num * RandMax >= k * den

\* Faulty variant: the second test of the bi-flip compares flipchance2 alone.
HandleMatrixNoSum(w_, r_, M, vol, fc, ff, high, low, rpos, cpos, random) ==
    LET up   == getweightratio(w_, r_, M, rpos, cpos, HIGH).num
        down == getweightratio(w_, r_, M, rpos, cpos, LOW).num
        e(d) == executeflip(M, vol, rpos, cpos, d)
    IN  IF high = 0 /\ low = 0 THEN [m |-> M, vol |-> vol, fc |-> fc, ff |-> ff]
        ELSE IF high = 1 /\ AtLeast(up, r_, random)
        THEN [m |-> e(HIGH).m, vol |-> e(HIGH).vol, fc |-> fc + 1, ff |-> ff]
        ELSE IF low = 1 /\ AtLeast(down, r_, random)
        THEN [m |-> e(LOW).m, vol |-> e(LOW).vol, fc |-> fc + 1, ff |-> ff]
        ELSE [m |-> M, vol |-> vol, fc |-> fc, ff |-> ff + 1]

\* Faulty variant: a cell that admits no move counts as a failure.
HandleMatrixCountsIdle(w_, r_, M, vol, fc, ff, high, low, rpos, cpos, random) ==
    LET up   == getweightratio(w_, r_, M, rpos, cpos, HIGH).num
        down == getweightratio(w_, r_, M, rpos, cpos, LOW).num
        e(d) == executeflip(M, vol, rpos, cpos, d)
    IN  IF high = 1 /\ AtLeast(up, r_, random)
        THEN [m |-> e(HIGH).m, vol |-> e(HIGH).vol, fc |-> fc + 1, ff |-> ff]
        ELSE IF low = 1 /\ AtLeast((IF high = 1 THEN up ELSE 0) + down, r_, random)
        THEN [m |-> e(LOW).m, vol |-> e(LOW).vol, fc |-> fc + 1, ff |-> ff]
        ELSE [m |-> M, vol |-> vol, fc |-> fc, ff |-> ff + 1]

(***************************************************************************)
(* main, "handle the first matrix": the three-way branch on the two flags. *)
(* Returns the lattice, its volume and the two counters.                   *)
(***************************************************************************)

HandleMatrix(w_, r_, M, vol, fc, ff, high, low, rpos, cpos, random) ==
    IF high = 1 /\ low = 0 THEN
        LET flipchance == getweightratio(w_, r_, M, rpos, cpos, HIGH)
        IN  IF AtLeast(flipchance.num, flipchance.den, random)
            THEN LET e == executeflip(M, vol, rpos, cpos, HIGH)
                 IN  [m |-> e.m, vol |-> e.vol, fc |-> fc + 1, ff |-> ff]
            ELSE [m |-> M, vol |-> vol, fc |-> fc, ff |-> ff + 1]
    ELSE IF high = 0 /\ low = 1 THEN
        LET flipchance == getweightratio(w_, r_, M, rpos, cpos, LOW)
        IN  IF AtLeast(flipchance.num, flipchance.den, random)
            THEN LET e == executeflip(M, vol, rpos, cpos, LOW)
                 IN  [m |-> e.m, vol |-> e.vol, fc |-> fc + 1, ff |-> ff]
            ELSE [m |-> M, vol |-> vol, fc |-> fc, ff |-> ff + 1]
    ELSE IF high = 1 /\ low = 1 THEN
        LET flipchance  == getweightratio(w_, r_, M, rpos, cpos, HIGH)
            flipchance2 == getweightratio(w_, r_, M, rpos, cpos, LOW)
        IN  IF AtLeast(flipchance.num, flipchance.den, random)
            THEN LET e == executeflip(M, vol, rpos, cpos, HIGH)
                 IN  [m |-> e.m, vol |-> e.vol, fc |-> fc + 1, ff |-> ff]
            ELSE IF AtLeast(flipchance.num + flipchance2.num, flipchance.den,
                            random)
            THEN LET e == executeflip(M, vol, rpos, cpos, LOW)
                 IN  [m |-> e.m, vol |-> e.vol, fc |-> fc + 1, ff |-> ff]
            ELSE [m |-> M, vol |-> vol, fc |-> fc, ff |-> ff + 1]
    ELSE [m |-> M, vol |-> vol, fc |-> fc, ff |-> ff]

\* Faulty variant: an accepted flip of the lower lattice is counted twice.
HandleMatrix2CountsTwice(w_, r_, M, vol, fc, ff, high, low, rpos, cpos, random) ==
    LET up   == getweightratio2(w_, r_, M, rpos, cpos, HIGH).num
        down == getweightratio2(w_, r_, M, rpos, cpos, LOW).num
        e(d) == executeflip2(M, vol, rpos, cpos, d)
    IN  IF high = 0 /\ low = 0 THEN [m |-> M, vol |-> vol, fc |-> fc, ff |-> ff]
        ELSE IF high = 1 /\ AtLeast(up, r_, random)
        THEN [m |-> e(HIGH).m, vol |-> e(HIGH).vol, fc |-> fc + 2, ff |-> ff]
        ELSE IF low = 1 /\ AtLeast((IF high = 1 THEN up ELSE 0) + down, r_, random)
        THEN [m |-> e(LOW).m, vol |-> e(LOW).vol, fc |-> fc + 2, ff |-> ff]
        ELSE [m |-> M, vol |-> vol, fc |-> fc, ff |-> ff + 1]

(***************************************************************************)
(* main, "handle the second matrix".                                       *)
(***************************************************************************)

HandleMatrix2(w_, r_, M, vol, fc, ff, high, low, rpos, cpos, random) ==
    IF high = 1 /\ low = 0 THEN
        LET flipchance == getweightratio2(w_, r_, M, rpos, cpos, HIGH)
        IN  IF AtLeast(flipchance.num, flipchance.den, random)
            THEN LET e == executeflip2(M, vol, rpos, cpos, HIGH)
                 IN  [m |-> e.m, vol |-> e.vol, fc |-> fc + 1, ff |-> ff]
            ELSE [m |-> M, vol |-> vol, fc |-> fc, ff |-> ff + 1]
    ELSE IF high = 0 /\ low = 1 THEN
        LET flipchance == getweightratio2(w_, r_, M, rpos, cpos, LOW)
        IN  IF AtLeast(flipchance.num, flipchance.den, random)
            THEN LET e == executeflip2(M, vol, rpos, cpos, LOW)
                 IN  [m |-> e.m, vol |-> e.vol, fc |-> fc + 1, ff |-> ff]
            ELSE [m |-> M, vol |-> vol, fc |-> fc, ff |-> ff + 1]
    ELSE IF high = 1 /\ low = 1 THEN
        LET flipchance  == getweightratio2(w_, r_, M, rpos, cpos, HIGH)
            flipchance2 == getweightratio2(w_, r_, M, rpos, cpos, LOW)
        IN  IF AtLeast(flipchance.num, flipchance.den, random)
            THEN LET e == executeflip2(M, vol, rpos, cpos, HIGH)
                 IN  [m |-> e.m, vol |-> e.vol, fc |-> fc + 1, ff |-> ff]
            ELSE IF AtLeast(flipchance.num + flipchance2.num, flipchance.den,
                            random)
            THEN LET e == executeflip2(M, vol, rpos, cpos, LOW)
                 IN  [m |-> e.m, vol |-> e.vol, fc |-> fc + 1, ff |-> ff]
            ELSE [m |-> M, vol |-> vol, fc |-> fc, ff |-> ff + 1]
    ELSE [m |-> M, vol |-> vol, fc |-> fc, ff |-> ff]

(***************************************************************************)
(* The probability, times rho, that the three-way branch performs the move *)
(* `type' for a draw `random' uniform on [0, 1]: the length of the         *)
(* interval of draws that reach executeflip(type).  UP is reached when     *)
(* random <= up / rho; DOWN, in the third branch, when                     *)
(* up / rho < random <= (up + down) / rho.                                 *)
(***************************************************************************)
Min(a, b) == IF a <= b THEN a ELSE b

Acceptance(w_, r_, M, high, low, rpos, cpos, type) ==
    IF high = 1 /\ low = 0 THEN
        IF type # 0
        THEN Min(getweightratio(w_, r_, M, rpos, cpos, HIGH).num, r_) ELSE 0
    ELSE IF high = 0 /\ low = 1 THEN
        IF type # 0
        THEN 0 ELSE Min(getweightratio(w_, r_, M, rpos, cpos, LOW).num, r_)
    ELSE IF high = 1 /\ low = 1 THEN
        LET up   == getweightratio(w_, r_, M, rpos, cpos, HIGH).num
            down == getweightratio(w_, r_, M, rpos, cpos, LOW).num
        IN  IF type # 0 THEN Min(up, r_)
            ELSE Min(up + down, r_) - Min(up, r_)
    ELSE 0

(***************************************************************************)
(* One pass of the loop of main: the cell is drawn, the upper lattice is   *)
(* tested and handled, then the lower lattice is tested (against the       *)
(* upper as it now is) and handled.  kr, kc are the draws of rand() for    *)
(* the cell, u1 and u2 those for the two acceptance tests.  An acceptance  *)
(* draw is taken only in the three branches that flip; a lattice that      *)
(* takes none reads no draw, and its draw is fixed at 0.                   *)
(***************************************************************************)
Draws(high, low) == IF high = 1 \/ low = 1 THEN 0..RandMax ELSE {0}

\* Faulty variant: the row of the cell is drawn from the next random value.
PassOtherDraw(S, kr, kc, u1, u2) ==
    LET r  == getflippablepositionrow(nrows, (kr + 1) % (RandMax + 1))
        c  == getflippablepositioncol(ncols, kc)
        h1 == getisflippable(S.matrix, S.matrix2, nrows, ncols, STICKY, r, c, HIGH)
        l1 == getisflippable(S.matrix, S.matrix2, nrows, ncols, STICKY, r, c, LOW)
        a  == HandleMatrix(wts, rho, S.matrix, S.matrixvol, S.flipcompleted,
                           S.flipfailed, h1, l1, r, c, u1)
        h2 == getisflippable2(a.m, S.matrix2, nrows, ncols, STICKY, r, c, HIGH)
        l2 == getisflippable2(a.m, S.matrix2, nrows, ncols, STICKY, r, c, LOW)
        b  == HandleMatrix2(wts, rho, S.matrix2, S.matrixvol2, a.fc, a.ff,
                            h2, l2, r, c, u2)
    IN  [matrix |-> a.m, matrix2 |-> b.m, matrixvol |-> a.vol,
         matrixvol2 |-> b.vol, flipcompleted |-> b.fc, flipfailed |-> b.ff]

(***************************************************************************)
(* One pass of the driver loop made by a run that is in S and reads the    *)
(* random values kr, kc (the cell) and u1, u2 (the acceptance tests).       *)
(***************************************************************************)
Pass(S, kr, kc, u1, u2) ==
    LET r  == getflippablepositionrow(nrows, kr)
        c  == getflippablepositioncol(ncols, kc)
        h1 == getisflippable(S.matrix, S.matrix2, nrows, ncols, STICKY, r, c, HIGH)
        l1 == getisflippable(S.matrix, S.matrix2, nrows, ncols, STICKY, r, c, LOW)
        a  == HandleMatrix(wts, rho, S.matrix, S.matrixvol, S.flipcompleted,
                           S.flipfailed, h1, l1, r, c, u1)
        h2 == getisflippable2(a.m, S.matrix2, nrows, ncols, STICKY, r, c, HIGH)
        l2 == getisflippable2(a.m, S.matrix2, nrows, ncols, STICKY, r, c, LOW)
        b  == HandleMatrix2(wts, rho, S.matrix2, S.matrixvol2, a.fc, a.ff,
                            h2, l2, r, c, u2)
    IN  [matrix |-> a.m, matrix2 |-> b.m, matrixvol |-> a.vol,
         matrixvol2 |-> b.vol, flipcompleted |-> b.fc, flipfailed |-> b.ff]

\* "total flips to do", read from the arguments or the terminal
flipstodo == 0

\* the condition of the driver loop: while(1==1); the loop
\* while(flipcompleted <= flipstodo) is commented out
LoopCondition == 1 = 1

\* the driver loop is also cut once the sinks emitted this many times
MaxEmissions == 12

\* the emissions so far: the files numbered and the lines appended
Emissions ==
    tprint + pprint + cprint + Len(files.volume) + Len(files.totalweight)

\* Faulty variant: the lower lattice is judged against the upper lattice
\* as it was before the first matrix was handled.
matrixSeenByLowerStale(before, after) == before

\* the global matrix as getisflippable2 reads it, called once the first
\* matrix was handled
matrixSeenByLower(before, after) == after

Iterate(kr, kc) ==
    /\ pc = "loop"
    /\ LoopCondition
    /\ flipcompleted + flipfailed < MaxFlips
    /\ Emissions < MaxEmissions
    /\ \E s0 \in {MainState} :
       \E s1 \in {EmitSuccessrate(s0)} :
       \E s2 \in {EmitText(s1)} :
       \E s3 \in {EmitPdf(s2)} :
       \E s4 \in {EmitVolume(s3)} :
       \E s5 \in {EmitTotalweight(s4)} :
       \E e \in {EmitCdensity(s5)} :
       \E r \in {getflippablepositionrow(nrows, kr)} :
       \E c \in {getflippablepositioncol(ncols, kc)} :
       \E h1 \in {getisflippable(s0.matrix, s0.matrix2, nrows, ncols, STICKY, r, c, HIGH)} :
       \E l1 \in {getisflippable(s0.matrix, s0.matrix2, nrows, ncols, STICKY, r, c, LOW)} :
       \E u1 \in Draws(h1, l1) :
       \E a \in {HandleMatrix(wts, rho, e.matrix, e.matrixvol, e.flipcompleted,
                              e.flipfailed, h1, l1, r, c, u1)} :
       \E seen \in {matrixSeenByLower(e.matrix, a.m)} :
       \E h2 \in {getisflippable2(seen, e.matrix2, nrows, ncols, STICKY, r, c, HIGH)} :
       \E l2 \in {getisflippable2(seen, e.matrix2, nrows, ncols, STICKY, r, c, LOW)} :
       \E u2 \in Draws(h2, l2) :
       \E b \in {HandleMatrix2(wts, rho, e.matrix2, e.matrixvol2, a.fc, a.ff,
                               h2, l2, r, c, u2)} :
            /\ tprint' = e.tprint
            /\ pprint' = e.pprint
            /\ cprint' = e.cprint
            /\ printat' = e.printat
            /\ files' = e.files
            /\ flipchoicerow' = r
            /\ flipchoicecol' = c
            /\ vcanfliphigh1' = h1
            /\ vcanfliplow1' = l1
            /\ matrix' = a.m
            /\ matrixvol' = a.vol
            /\ vcanfliphigh2' = h2
            /\ vcanfliplow2' = l2
            /\ matrix2' = b.m
            /\ matrixvol2' = b.vol
            /\ flipcompleted' = b.fc
            /\ flipfailed' = b.ff
            /\ replay' = Pass(replay, kr, kc, u1, u2)
            /\ UNCHANGED <<nrows, ncols, wts, rho, STICKY, steps, interval, pc,
                         exitstatus, iceinput>>

Next == \E kr \in 0..RandMax : \E kc \in 0..RandMax : Iterate(kr, kc)

Spec == Init /\ [][Next]_vars

(***************************************************************************)
(* main from its first statement, interactive path: the two input files    *)
(* are opened, then the size and the weights are read and the lattices are *)
(* parsed and initialised.  ok1, ok2 tell whether fopen succeeded.  Before *)
(* that the globals hold 0 and the lattices hold no parsed cell.           *)
(***************************************************************************)
\* Input files of 2 x 2 bytes in which one byte is the character '6'.
MalformedInputs ==
    {[R |-> 2, C |-> 2, data |-> [FileOf(g, 2, 2) EXCEPT ![k] = Zero + 6]] :
        g \in {x \in FreeGrids(2, 2) : x[0][1] = 0 /\ x[1][0] = 1 /\ x[1][1] = 0},
        k \in 1..4}

\* wts[6] is a read past the end of "double wts[6]": the value found there
\* is not defined by the program, and is one of these
PastTheEnd == {0, 1}

\* the weights a run reads for the types its lattices hold: wts[0..5] as
\* entered and, for a lattice read from a malformed file, g at wts[6]
WtsRead(q, inp, g) ==
    IF inp \in MalformedInputs
    THEN [t \in 0..6 |-> IF t = 6 THEN g ELSE q[t + 1]]
    ELSE WtsOf(q)

\* further weights a user enters: a1 = a2 = 2, the others 1
ScenarioWeights == { <<2, 2, 1, 1, 1, 1>> }

InitMain ==
    \E s \in {0, 1} :
        /\ nrows = 0
        /\ ncols = 0
        /\ wts = [t \in Types |-> 0]
        /\ rho = 0
        /\ STICKY = s
        /\ matrix = << >>
        /\ matrix2 = << >>
        /\ matrixvol = 0
        /\ matrixvol2 = 0
        /\ flipchoicerow = 0
        /\ flipchoicecol = 0
        /\ vcanfliphigh1 = 0
        /\ vcanfliplow1 = 0
        /\ vcanfliphigh2 = 0
        /\ vcanfliplow2 = 0
        /\ flipcompleted = 0
        /\ flipfailed = 0
        /\ steps = 0
        /\ tprint = 0
        /\ pprint = 0
        /\ cprint = 0
        /\ printat = FirstThresholds
        /\ interval = Intervals(PrintInterval)
        /\ files = NoFiles
        /\ pc = "open"
        /\ exitstatus = 0
        /\ replay = RunState
        /\ iceinput = FALSE

OpenAndLoad(ok1, ok2) ==
    /\ pc = "open"
    /\ UNCHANGED <<STICKY, flipchoicerow, flipchoicecol, vcanfliphigh1,
                   vcanfliplow1, vcanfliphigh2, vcanfliplow2, flipcompleted,
                   flipfailed, steps, tprint, pprint, cprint, printat, interval,
                   files>>
    /\ IF ok1 /\ ok2
       THEN \E inp \in Inputs \cup MalformedInputs :
            \E q \in WeightChoices \cup ScenarioWeights :
            \E g \in (IF inp \in MalformedInputs THEN PastTheEnd ELSE {0}) :
                /\ nrows' = inp.R
                /\ ncols' = inp.C
                /\ wts' = WtsRead(q, inp, g)
                /\ rho' = definerho(WtsOf(q))
                /\ matrix' = setheights(parse(inp.data, inp.R, inp.C), inp.R, inp.C).m
                /\ matrix2' = setheights2(parse(inp.data, inp.R, inp.C), inp.R, inp.C).m
                /\ matrixvol' = setheights(parse(inp.data, inp.R, inp.C), inp.R, inp.C).total
                /\ matrixvol2' = setheights2(parse(inp.data, inp.R, inp.C), inp.R, inp.C).total
                /\ iceinput' = EdgeConsistent(parse(inp.data, inp.R, inp.C), inp.R, inp.C)
                /\ pc' = "loop"
                /\ replay' = RunState'
                /\ UNCHANGED exitstatus
       ELSE \* printf("*** error opening file"); return 0;
            /\ pc' = "exit"
            /\ exitstatus' = 0
            /\ UNCHANGED <<nrows, ncols, wts, rho, matrix, matrix2, matrixvol,
                           matrixvol2, replay, iceinput>>

NextMain ==
    \/ \E ok1 \in BOOLEAN : \E ok2 \in BOOLEAN : OpenAndLoad(ok1, ok2)
    \/ Next

SpecMain == InitMain /\ [][NextMain]_vars

(***************************************************************************)
(* The driver with the interval as the user enters it: any integer, the    *)
(* same for every sink.  The lattices are the 3 x 3 inputs, the weights    *)
(* are all 1 and the sticky test is off or on.                             *)
(***************************************************************************)
\* the largest interval entered; the smallest is -1
MaxInterval == 1

InitCadence ==
    \E inp \in {x \in Inputs : x.R = 3} : \E v \in (0 - 1)..MaxInterval :
    \E s \in {0, 1} :
        /\ nrows = inp.R
        /\ ncols = inp.C
        /\ wts = WtsOf(<<1, 1, 1, 1, 1, 1>>)
        /\ rho = definerho(WtsOf(<<1, 1, 1, 1, 1, 1>>))
        /\ STICKY = s
        /\ matrix = setheights(parse(inp.data, inp.R, inp.C), inp.R, inp.C).m
        /\ matrix2 = setheights2(parse(inp.data, inp.R, inp.C), inp.R, inp.C).m
        /\ matrixvol = setheights(parse(inp.data, inp.R, inp.C), inp.R, inp.C).total
        /\ matrixvol2 = setheights2(parse(inp.data, inp.R, inp.C), inp.R, inp.C).total
        /\ flipchoicerow = 0
        /\ flipchoicecol = 0
        /\ vcanfliphigh1 = 0
        /\ vcanfliplow1 = 0
        /\ vcanfliphigh2 = 0
        /\ vcanfliplow2 = 0
        /\ flipcompleted = 0
        /\ flipfailed = 0
        /\ steps = 0
        /\ tprint = 0
        /\ pprint = 0
        /\ cprint = 0
        /\ printat = FirstThresholds
        /\ interval = Intervals(v)
        /\ files = NoFiles
        /\ pc = "loop"
        /\ exitstatus = 0
        /\ replay = RunState
        /\ iceinput = EdgeConsistent(parse(inp.data, inp.R, inp.C), inp.R, inp.C)

SpecCadence == InitCadence /\ [][Next]_vars

(***************************************************************************)
(* Properties of the lattices.                                             *)
(***************************************************************************)
Rows == 0..(nrows - 1)

Cols == 0..(ncols - 1)

TypesOf(M) == [i \in DOMAIN M |-> [j \in DOMAIN M[i] |-> M[i][j].type]]

\* C1: if in the input lattices every pair of adjacent cells agrees on the
\* edge it shares (edges as draw_vertex draws them), then in every state the
\* driver reaches, after any accepted UP and DOWN flips, every pair of
\* adjacent cells of the upper and of the lower lattice still agrees.
IceRulePreserved ==
    iceinput => /\ EdgeConsistent(matrix, nrows, ncols)
                /\ EdgeConsistent(matrix2, nrows, ncols)

\* a six-vertex input on which two flips were accepted, leaving the two
\* lattices with different volumes
IceRuleWitness ==
    iceinput /\ flipcompleted >= 2 /\ matrixvol # matrixvol2

\* C2: the parsed lattices hold types in 0..5, and after any number of
\* passes of the driver every cell of both lattices holds a type in 0..5.
TypeRange ==
    \A i \in Rows, j \in Cols :
        matrix[i][j].type \in Types /\ matrix2[i][j].type \in Types

\* an arbitrary arrangement of types (not a six-vertex configuration) on
\* which a flip was accepted
TypeRangeWitness ==
    ~iceinput /\ flipcompleted >= 1 /\ TypesOf(matrix) # TypesOf(matrix2)

\* the number of cells of row i, columns 0..j, whose type is 0, 2 or 5
RECURSIVE RunningCount(_, _, _)
RunningCount(M, i, j) ==
    IF j < 0 THEN 0
    ELSE RunningCount(M, i, j - 1) + (IF M[i][j].type \in {0, 2, 5} THEN 1 ELSE 0)

HeightsAreCounts(M) ==
    \A i \in Rows, j \in Cols : M[i][j].height = RunningCount(M, i, j)

\* C3 as stated: for every input lattice with types in 0..5, in every state
\* the stored height of every cell (i, j) is the number of cells of row i,
\* columns 0..j, whose type is 0, 2 or 5.
HeightInvariantAnyLattice ==
    HeightsAreCounts(matrix) /\ HeightsAreCounts(matrix2)

\* C3, amended: for every input lattice that is a six-vertex configuration
\* (adjacent cells agree on shared edges), in every state the stored height
\* of every cell (i, j) is the number of cells of row i, columns 0..j, whose
\* type is 0, 2 or 5.
HeightInvariant ==
    iceinput => (HeightsAreCounts(matrix) /\ HeightsAreCounts(matrix2))

\* a six-vertex input after an accepted flip that left a cell of the upper
\* lattice with a height other than that of the lower
HeightWitness ==
    /\ iceinput
    /\ flipcompleted >= 1
    /\ \E i \in Rows, j \in Cols : matrix[i][j].height # matrix2[i][j].height

\* C4: with STICKY = 1 and the two lattices equal at the start, in every
\* state the height of every cell of the upper lattice is at least the
\* height of the same cell of the lower lattice.
StickyInvariant ==
    (STICKY = 1 /\ iceinput) =>
        \A i \in Rows, j \in Cols : matrix[i][j].height >= matrix2[i][j].height

\* C5: for every move (i, j, d) that getisflippable (getisflippable2) admits
\* in a six-vertex lattice, the product of the four weights getweightratio
\* (getweightratio2) multiplies is at most rho: the ratio lies in [0, 1].
RhoBoundsSingle ==
    iceinput =>
        \A i \in Rows, j \in Cols, d \in {LOW, HIGH} :
            /\ getisflippable(matrix, matrix2, nrows, ncols, STICKY, i, j, d) = 1
                   => getweightratio(wts, rho, matrix, i, j, d).num <= rho
            /\ getisflippable2(matrix, matrix2, nrows, ncols, STICKY, i, j, d) = 1
                   => getweightratio2(wts, rho, matrix2, i, j, d).num <= rho

\* C6: for every cell of a six-vertex lattice where both UP and DOWN are
\* admitted, the product of UP plus the product of DOWN is at most rho: the
\* two ratios add up to a number in [0, 1].
RhoBoundsBiflip ==
    iceinput =>
        \A i \in Rows, j \in Cols :
            /\ (/\ getisflippable(matrix, matrix2, nrows, ncols, STICKY, i, j, HIGH) = 1
                /\ getisflippable(matrix, matrix2, nrows, ncols, STICKY, i, j, LOW) = 1)
                   => getweightratio(wts, rho, matrix, i, j, HIGH).num
                      + getweightratio(wts, rho, matrix, i, j, LOW).num <= rho
            /\ (/\ getisflippable2(matrix, matrix2, nrows, ncols, STICKY, i, j, HIGH) = 1
                /\ getisflippable2(matrix, matrix2, nrows, ncols, STICKY, i, j, LOW) = 1)
                   => getweightratio2(wts, rho, matrix2, i, j, HIGH).num
                      + getweightratio2(wts, rho, matrix2, i, j, LOW).num <= rho

(***************************************************************************)
(* Detailed balance.  pi(Z) is the product of w[type] over the cells of Z. *)
(***************************************************************************)
RECURSIVE PiUpTo(_, _, _, _)
PiUpTo(w_, M, C, n) ==
    IF n = 0 THEN 1
    ELSE PiUpTo(w_, M, C, n - 1) * w_[M[(n - 1) \div C][(n - 1) % C].type]

Pi(w_, M, R, C) == PiUpTo(w_, M, C, R * C)

\* C7: with STICKY = 0, for every move (i, j, d) admitted in the upper
\* lattice X, a six-vertex configuration, with Y the lattice after the move:
\* the reverse move is admitted in Y, and pi(X) times the probability that
\* the driver performs the move in X equals pi(Y) times the probability that
\* it performs the reverse move in Y.  The cell is drawn with the same
\* probability in X and in Y, and both acceptances are over the same rho, so
\* the equation is the one between the numerators.
DetailedBalance ==
    (iceinput /\ STICKY = 0) =>
        \A i \in Rows, j \in Cols, d \in {LOW, HIGH} :
            getisflippable(matrix, matrix2, nrows, ncols, STICKY, i, j, d) = 1 =>
                LET Y  == executeflip(matrix, matrixvol, i, j, d).m
                    ri == IF d # 0 THEN i - 1 ELSE i + 1
                    rj == IF d # 0 THEN j + 1 ELSE j - 1
                    rd == IF d # 0 THEN LOW ELSE HIGH
                IN  /\ getisflippable(Y, matrix2, nrows, ncols, STICKY, ri, rj, rd) = 1
                    /\ Pi(wts, matrix, nrows, ncols)
                         * Acceptance(wts, rho, matrix,
                               getisflippable(matrix, matrix2, nrows, ncols, STICKY, i, j, HIGH),
                               getisflippable(matrix, matrix2, nrows, ncols, STICKY, i, j, LOW),
                               i, j, d)
                       = Pi(wts, Y, nrows, ncols)
                         * Acceptance(wts, rho, Y,
                               getisflippable(Y, matrix2, nrows, ncols, STICKY, ri, rj, HIGH),
                               getisflippable(Y, matrix2, nrows, ncols, STICKY, ri, rj, LOW),
                               ri, rj, rd)

(***************************************************************************)
(* Flippability.                                                           *)
(***************************************************************************)
CanFlipUp(M, R, C, r, c) ==
    /\ r > 0
    /\ c < C - 1
    /\ M[r][c].type \in {0, 5}
    /\ M[r - 1][c + 1].type \in {1, 5}

CanFlipDown(M, R, C, r, c) ==
    /\ r < R - 1
    /\ c > 0
    /\ M[r][c].type \in {0, 4}
    /\ M[r + 1][c - 1].type \in {1, 4}

Bit(b) == IF b THEN 1 ELSE 0

\* C8: with STICKY = 0, for every cell (i, j) of every lattice,
\* getisflippable answers 1 for UP exactly when i > 0, j < C-1, the type of
\* (i, j) is 0 or 5 and the type of (i-1, j+1) is 1 or 5; 1 for DOWN exactly
\* when i < R-1, j > 0, the type of (i, j) is 0 or 4 and the type of
\* (i+1, j-1) is 1 or 4; and 0 otherwise.  getisflippable2 answers the same
\* on the lower lattice.
FlippabilityPredicate ==
    STICKY = 0 =>
        \A i \in Rows, j \in Cols :
            /\ getisflippable(matrix, matrix2, nrows, ncols, STICKY, i, j, HIGH)
                   = Bit(CanFlipUp(matrix, nrows, ncols, i, j))
            /\ getisflippable(matrix, matrix2, nrows, ncols, STICKY, i, j, LOW)
                   = Bit(CanFlipDown(matrix, nrows, ncols, i, j))
            /\ getisflippable2(matrix, matrix2, nrows, ncols, STICKY, i, j, HIGH)
                   = Bit(CanFlipUp(matrix2, nrows, ncols, i, j))
            /\ getisflippable2(matrix, matrix2, nrows, ncols, STICKY, i, j, LOW)
                   = Bit(CanFlipDown(matrix2, nrows, ncols, i, j))

\* STICKY = 0, a flip was accepted, and the lattices now hold a cell that can
\* flip UP and a cell that can flip DOWN, and the upper-left cell cannot flip
FlippabilityWitness ==
    /\ STICKY = 0
    /\ flipcompleted >= 1
    /\ \E i \in Rows, j \in Cols :
           getisflippable(matrix, matrix2, nrows, ncols, STICKY, i, j, HIGH) = 1
    /\ \E i \in Rows, j \in Cols :
           getisflippable2(matrix, matrix2, nrows, ncols, STICKY, i, j, LOW) = 1
    /\ getisflippable(matrix, matrix2, nrows, ncols, STICKY, 0, 0, HIGH) = 0
    /\ getisflippable(matrix, matrix2, nrows, ncols, STICKY, 0, 0, LOW) = 0

\* C9: with STICKY = 1, UP on the upper lattice at (i, j) is admitted only
\* if upper[i][j].height > lower[i][j].height, DOWN on the lower lattice at
\* (i, j) only if lower[i][j].height < upper[i][j].height, and UP on the
\* lower lattice and DOWN on the upper lattice are admitted exactly when
\* the predicate without heights admits them.
StickyGuards ==
    STICKY = 1 =>
        \A i \in Rows, j \in Cols :
            /\ getisflippable(matrix, matrix2, nrows, ncols, STICKY, i, j, HIGH) = 1
                   => (/\ CanFlipUp(matrix, nrows, ncols, i, j)
                       /\ matrix[i][j].height > matrix2[i][j].height)
            /\ getisflippable2(matrix, matrix2, nrows, ncols, STICKY, i, j, LOW) = 1
                   => (/\ CanFlipDown(matrix2, nrows, ncols, i, j)
                       /\ matrix2[i][j].height < matrix[i][j].height)
            /\ getisflippable2(matrix, matrix2, nrows, ncols, STICKY, i, j, HIGH)
                   = Bit(CanFlipUp(matrix2, nrows, ncols, i, j))
            /\ getisflippable(matrix, matrix2, nrows, ncols, STICKY, i, j, LOW)
                   = Bit(CanFlipDown(matrix, nrows, ncols, i, j))

\* STICKY = 1 and the state holds a cell where UP on the upper lattice is
\* admitted (its height exceeds the lower one), a cell where the types
\* allow DOWN on the lower lattice and the heights forbid it, and a cell
\* where DOWN on the lower lattice is admitted
StickyGuardsWitness ==
    /\ STICKY = 1
    /\ \E i \in Rows, j \in Cols :
           getisflippable(matrix, matrix2, nrows, ncols, STICKY, i, j, HIGH) = 1
    /\ \E i \in Rows, j \in Cols :
           /\ CanFlipDown(matrix2, nrows, ncols, i, j)
           /\ getisflippable2(matrix, matrix2, nrows, ncols, STICKY, i, j, LOW) = 0
    /\ \E i \in Rows, j \in Cols :
           getisflippable2(matrix, matrix2, nrows, ncols, STICKY, i, j, LOW) = 1

\* the types of N are those of M with the move (rpos, cpos, type) applied
\* once by the documented table
Relabelled(M, N, rpos, cpos, type) ==
    TypesOf(N) = TypesOf(RewriteBy(M, rpos, cpos, type, UpTable, DownTable))

\* C10: every pass that flips a lattice (its volume moves by one: down for
\* UP, up for DOWN) at the drawn cell rewrites the base, the diagonal cell
\* and the two neighbours each once by the documented table, a cell whose
\* type the table does not list for its role keeping its type; every other
\* cell keeps its type, and a pass that flips nothing in a lattice changes
\* no type of it.
RelabellingTable ==
    [][ /\ (matrixvol' = matrixvol - 1 =>
                Relabelled(matrix, matrix', flipchoicerow', flipchoicecol', HIGH))
        /\ (matrixvol' = matrixvol + 1 =>
                Relabelled(matrix, matrix', flipchoicerow', flipchoicecol', LOW))
        /\ (matrixvol' = matrixvol => TypesOf(matrix') = TypesOf(matrix))
        /\ (matrixvol2' = matrixvol2 - 1 =>
                Relabelled(matrix2, matrix2', flipchoicerow', flipchoicecol', HIGH))
        /\ (matrixvol2' = matrixvol2 + 1 =>
                Relabelled(matrix2, matrix2', flipchoicerow', flipchoicecol', LOW))
        /\ (matrixvol2' = matrixvol2 => TypesOf(matrix2') = TypesOf(matrix2))
      ]_vars

\* an arrangement of types that is no six-vertex configuration, in which the
\* upper lattice flipped UP at the drawn cell and the lower did not
RelabellingWitness ==
    /\ ~iceinput
    /\ flipcompleted = 1
    /\ flipfailed = 1
    /\ vcanfliphigh1 = 1
    /\ vcanfliplow1 = 0
    /\ matrixvol = matrixvol2 - 1

(***************************************************************************)
(* Flippability and the relabelling table.                                 *)
(***************************************************************************)
\* the two neighbours of an admitted move hold types the table lists for
\* their role (the base and the diagonal cell do by the test itself)
NeighboursListed(M, r, c, d) ==
    IF d # 0
    THEN M[r][c + 1].type \in {3, 4} /\ M[r - 1][c].type \in {2, 4}
    ELSE M[r][c - 1].type \in {3, 5} /\ M[r + 1][c].type \in {2, 5}

AdmittedMovesListed ==
    \A i \in Rows, j \in Cols, d \in {LOW, HIGH} :
        /\ getisflippable(matrix, matrix2, nrows, ncols, STICKY, i, j, d) = 1
               => NeighboursListed(matrix, i, j, d)
        /\ getisflippable2(matrix, matrix2, nrows, ncols, STICKY, i, j, d) = 1
               => NeighboursListed(matrix2, i, j, d)

\* C11 as stated: in every state reached from any parsed lattice with types
\* in 0..5, whenever getisflippable (getisflippable2) admits (i, j, d), the
\* right and up cells (UP) hold types in {3,4} and {2,4}, the left and down
\* cells (DOWN) types in {3,5} and {2,5}: no cell of a flip is left as it was.
TableMembershipAnyLattice == AdmittedMovesListed

\* C11, amended: in every state reached from an input lattice that is a
\* six-vertex configuration, whenever getisflippable (getisflippable2) admits
\* (i, j, d), the right and up cells (UP) hold types in {3,4} and {2,4}, the
\* left and down cells (DOWN) types in {3,5} and {2,5}.
TableMembership == iceinput => AdmittedMovesListed

\* a six-vertex input after an accepted flip, with an UP move admitted in
\* the upper lattice and a DOWN move admitted in the lower
TableMembershipWitness ==
    /\ iceinput
    /\ flipcompleted >= 1
    /\ \E i \in Rows, j \in Cols :
           getisflippable(matrix, matrix2, nrows, ncols, STICKY, i, j, HIGH) = 1
    /\ \E i \in Rows, j \in Cols :
           getisflippable2(matrix, matrix2, nrows, ncols, STICKY, i, j, LOW) = 1

(***************************************************************************)
(* Heights and volume.                                                     *)
(***************************************************************************)
HeightsOf(M) == [i \in DOMAIN M |-> [j \in DOMAIN M[i] |-> M[i][j].height]]

\* N is M after a flip UP (DOWN) at (r, c): the base went from 0 to 4 or
\* from 5 to 1 (from 4 to 1 or from 0 to 5)
FlippedUp(M, N, r, c) ==
    M[r][c].type \in {0, 5} /\ N[r][c].type = UpTable.base[M[r][c].type + 1]

FlippedDown(M, N, r, c) ==
    M[r][c].type \in {0, 4} /\ N[r][c].type = DownTable.base[M[r][c].type + 1]

DeltaOfFlip(M, N, vol, volN, r, c) ==
    /\ FlippedUp(M, N, r, c) =>
           /\ HeightsOf(N) = [HeightsOf(M) EXCEPT ![r][c] = @ - 1]
           /\ volN = vol - 1
    /\ FlippedDown(M, N, r, c) =>
           /\ HeightsOf(N) = [HeightsOf(M) EXCEPT ![r + 1][c - 1] = @ + 1]
           /\ volN = vol + 1

\* C12: a pass that flips a lattice UP at the drawn cell (r, c) lowers the
\* stored height of (r, c) by 1 and the volume counter of the lattice by 1;
\* one that flips it DOWN raises the stored height of (r+1, c-1) by 1 and
\* the volume counter by 1; no other stored height of the lattice changes.
HeightVolumeDelta ==
    [][ /\ DeltaOfFlip(matrix, matrix', matrixvol, matrixvol',
                       flipchoicerow', flipchoicecol')
        /\ DeltaOfFlip(matrix2, matrix2', matrixvol2, matrixvol2',
                       flipchoicerow', flipchoicecol')
      ]_vars

\* two accepted flips after which the upper volume is two above the lower:
\* the upper lattice flipped DOWN and the lower UP
HeightVolumeWitness ==
    flipcompleted = 2 /\ flipfailed = 0 /\ matrixvol = matrixvol2 + 2

\* the sum of the stored heights of the first n cells of M, row major
RECURSIVE SumHeightsUpTo(_, _, _)
SumHeightsUpTo(M, C, n) ==
    IF n = 0 THEN 0
    ELSE SumHeightsUpTo(M, C, n - 1) + M[(n - 1) \div C][(n - 1) % C].height

SumHeights(M, R, C) == SumHeightsUpTo(M, C, R * C)

\* C13: in every state, matrixvol is the sum of the stored heights of all
\* cells of the upper lattice and matrixvol2 that of the lower lattice.
VolumeIsSumOfHeights ==
    /\ matrixvol = SumHeights(matrix, nrows, ncols)
    /\ matrixvol2 = SumHeights(matrix2, nrows, ncols)

\* both lattices flipped, and their volumes differ
VolumeWitness ==
    /\ flipcompleted >= 2
    /\ HeightsOf(matrix) # HeightsOf(matrix2)
    /\ matrixvol # matrixvol2

(***************************************************************************)
(* The acceptance rules.  u ranges over the draws 0..RandMax, the draw     *)
(* being u / RandMax; a ratio is num / den.                                *)
(***************************************************************************)
\* u / RandMax <= num / den
DrawAtMost(u, num, den) == u * den <= num * RandMax

\* what handling leaves when the move d is executed, and when it is refused
Executed(M, vol, r, c, d) ==
    [m |-> executeflip(M, vol, r, c, d).m, vol |-> executeflip(M, vol, r, c, d).vol,
     fc |-> flipcompleted + 1, ff |-> flipfailed]

Executed2(M, vol, r, c, d) ==
    [m |-> executeflip2(M, vol, r, c, d).m, vol |-> executeflip2(M, vol, r, c, d).vol,
     fc |-> flipcompleted + 1, ff |-> flipfailed]

Refused(M, vol) ==
    [m |-> M, vol |-> vol, fc |-> flipcompleted, ff |-> flipfailed + 1]

\* the one direction admitted by the flags (high, low)
OnlyDirection(high, low) == IF high = 1 THEN HIGH ELSE LOW

\* C14: at every cell where exactly one direction d is admitted for a
\* lattice, for every draw u: if u <= ratio(d), handling the lattice
\* executes the flip d and raises flipcompleted by 1 and leaves flipfailed;
\* otherwise it leaves the lattice and its volume as they are and raises
\* flipfailed by 1 and leaves flipcompleted.
SingleDirectionAcceptance ==
    \A i \in Rows, j \in Cols, u \in 0..RandMax :
        /\ LET high == getisflippable(matrix, matrix2, nrows, ncols, STICKY, i, j, HIGH)
               low  == getisflippable(matrix, matrix2, nrows, ncols, STICKY, i, j, LOW)
               d    == OnlyDirection(high, low)
           IN  high + low = 1 =>
                   HandleMatrix(wts, rho, matrix, matrixvol, flipcompleted,
                                flipfailed, high, low, i, j, u)
                   = IF DrawAtMost(u, getweightratio(wts, rho, matrix, i, j, d).num,
                                   getweightratio(wts, rho, matrix, i, j, d).den)
                     THEN Executed(matrix, matrixvol, i, j, d)
                     ELSE Refused(matrix, matrixvol)
        /\ LET high == getisflippable2(matrix, matrix2, nrows, ncols, STICKY, i, j, HIGH)
               low  == getisflippable2(matrix, matrix2, nrows, ncols, STICKY, i, j, LOW)
               d    == OnlyDirection(high, low)
           IN  high + low = 1 =>
                   HandleMatrix2(wts, rho, matrix2, matrixvol2, flipcompleted,
                                 flipfailed, high, low, i, j, u)
                   = IF DrawAtMost(u, getweightratio2(wts, rho, matrix2, i, j, d).num,
                                   getweightratio2(wts, rho, matrix2, i, j, d).den)
                     THEN Executed2(matrix2, matrixvol2, i, j, d)
                     ELSE Refused(matrix2, matrixvol2)

\* one pass in which each lattice had exactly one direction admitted at the
\* drawn cell, one lattice flipped and the other refused
SingleDirectionWitness ==
    /\ vcanfliphigh1 + vcanfliplow1 = 1
    /\ vcanfliphigh2 + vcanfliplow2 = 1
    /\ flipcompleted = 1
    /\ flipfailed = 1

\* C15: at every cell where both UP and DOWN are admitted for a lattice, for
\* every draw u, with both ratios taken on the lattice before the move:
\* if u <= ratio(UP), handling executes UP only; otherwise if
\* u <= ratio(UP) + ratio(DOWN), it executes DOWN only; otherwise it leaves
\* the lattice as it is and raises flipfailed by 1.  An accepted bi-flip
\* raises flipcompleted by exactly 1 and executes one move.
BiflipRule ==
    \A i \in Rows, j \in Cols, u \in 0..RandMax :
        /\ (/\ getisflippable(matrix, matrix2, nrows, ncols, STICKY, i, j, HIGH) = 1
            /\ getisflippable(matrix, matrix2, nrows, ncols, STICKY, i, j, LOW) = 1)
           => LET up   == getweightratio(wts, rho, matrix, i, j, HIGH)
                  down == getweightratio(wts, rho, matrix, i, j, LOW)
              IN  HandleMatrix(wts, rho, matrix, matrixvol, flipcompleted,
                               flipfailed, 1, 1, i, j, u)
                  = IF DrawAtMost(u, up.num, up.den)
                    THEN Executed(matrix, matrixvol, i, j, HIGH)
                    ELSE IF DrawAtMost(u, up.num * down.den + down.num * up.den,
                                       up.den * down.den)
                    THEN Executed(matrix, matrixvol, i, j, LOW)
                    ELSE Refused(matrix, matrixvol)
        /\ (/\ getisflippable2(matrix, matrix2, nrows, ncols, STICKY, i, j, HIGH) = 1
            /\ getisflippable2(matrix, matrix2, nrows, ncols, STICKY, i, j, LOW) = 1)
           => LET up   == getweightratio2(wts, rho, matrix2, i, j, HIGH)
                  down == getweightratio2(wts, rho, matrix2, i, j, LOW)
              IN  HandleMatrix2(wts, rho, matrix2, matrixvol2, flipcompleted,
                                flipfailed, 1, 1, i, j, u)
                  = IF DrawAtMost(u, up.num, up.den)
                    THEN Executed2(matrix2, matrixvol2, i, j, HIGH)
                    ELSE IF DrawAtMost(u, up.num * down.den + down.num * up.den,
                                       up.den * down.den)
                    THEN Executed2(matrix2, matrixvol2, i, j, LOW)
                    ELSE Refused(matrix2, matrixvol2)

\* the last pass handled the upper lattice with both directions admitted at
\* the drawn cell; one proposal of the run was accepted, a DOWN move of the
\* upper lattice, and one was refused
BiflipWitness ==
    /\ vcanfliphigh1 = 1
    /\ vcanfliplow1 = 1
    /\ flipcompleted = 1
    /\ flipfailed = 1
    /\ matrixvol = matrixvol2 + 1

\* what handling leaves when it does nothing at all
Untouched(M, vol) ==
    [m |-> M, vol |-> vol, fc |-> flipcompleted, ff |-> flipfailed]

\* C16: at every cell, boundary cells included, where neither UP nor DOWN
\* is admitted for a lattice, handling that lattice with any draw leaves
\* every cell type, every height, the volume, flipcompleted and flipfailed
\* as they were.
NotFlippableNoOp ==
    \A i \in Rows, j \in Cols, u \in 0..RandMax :
        /\ LET high == getisflippable(matrix, matrix2, nrows, ncols, STICKY, i, j, HIGH)
               low  == getisflippable(matrix, matrix2, nrows, ncols, STICKY, i, j, LOW)
           IN  high + low = 0 =>
                   HandleMatrix(wts, rho, matrix, matrixvol, flipcompleted,
                                flipfailed, high, low, i, j, u)
                   = Untouched(matrix, matrixvol)
        /\ LET high == getisflippable2(matrix, matrix2, nrows, ncols, STICKY, i, j, HIGH)
               low  == getisflippable2(matrix, matrix2, nrows, ncols, STICKY, i, j, LOW)
           IN  high + low = 0 =>
                   HandleMatrix2(wts, rho, matrix2, matrixvol2, flipcompleted,
                                 flipfailed, high, low, i, j, u)
                   = Untouched(matrix2, matrixvol2)

\* a pass drew a cell of the last row where no lattice admits a move, after
\* a pass that counted a proposal
NotFlippableWitness ==
    /\ flipchoicerow = nrows - 1
    /\ vcanfliphigh1 + vcanfliplow1 = 0
    /\ vcanfliphigh2 + vcanfliplow2 = 0
    /\ flipcompleted + flipfailed = 1

\* the lattices for which the pass just made found no admitted move
IdleLattices ==
    Bit(vcanfliphigh1' + vcanfliplow1' = 0) + Bit(vcanfliphigh2' + vcanfliplow2' = 0)

\* C17: every pass records, in flipfailed or in steps, one rejection for
\* each lattice for which the drawn cell admits no move.
NotFlippableCounted ==
    [][(flipfailed' + steps') - (flipfailed + steps) >= IdleLattices]_vars

(***************************************************************************)
(* The counters.                                                           *)
(***************************************************************************)
\* N is M, or M after one move at (r, c), and the volume moved accordingly
AtMostOneFlip(M, N, vol, volN, r, c) ==
    \/ N = M /\ volN = vol
    \/ N # M /\ Relabelled(M, N, r, c, HIGH) /\ volN = vol - 1
    \/ N # M /\ Relabelled(M, N, r, c, LOW) /\ volN = vol + 1

\* C18: in every pass of the driver loop flipcompleted and flipfailed do not
\* decrease; flipcompleted grows by one for each lattice that flipped and
\* flipfailed by at most one for each lattice that did not, so that each
\* lattice adds at most one count, to one counter, and the two counters grow
\* by at most 2 together; and each lattice is changed by at most one flip.
CountersStep ==
    [][ /\ flipcompleted' >= flipcompleted
        /\ flipfailed' >= flipfailed
        /\ flipcompleted' - flipcompleted
               = Bit(matrix' # matrix) + Bit(matrix2' # matrix2)
        /\ flipfailed' - flipfailed
               <= Bit(matrix' = matrix) + Bit(matrix2' = matrix2)
        /\ (flipcompleted' + flipfailed') - (flipcompleted + flipfailed) <= 2
        /\ AtMostOneFlip(matrix, matrix', matrixvol, matrixvol',
                         flipchoicerow', flipchoicecol')
        /\ AtMostOneFlip(matrix2, matrix2', matrixvol2, matrixvol2',
                         flipchoicerow', flipchoicecol')
      ]_vars

\* one pass counted both lattices, the upper as a completion with its flip
\* executed and the lower as a failure
CountersWitness ==
    /\ flipcompleted = 1
    /\ flipfailed = 1
    /\ vcanfliphigh1 + vcanfliplow1 >= 1
    /\ vcanfliphigh2 + vcanfliplow2 >= 1
    /\ matrix # matrix2
    /\ matrixvol # matrixvol2

(***************************************************************************)
(* Atomicity of a move.  The sinks of a pass are written after the cell is *)
(* drawn and before the first lattice is handled, so the lattices they see *)
(* are those of the boundary between two passes.                           *)
(***************************************************************************)
\* N, volN are M, vol with the move (r, c, d) applied in full: the four
\* rewrites of the table, the height of the anchor and the volume
FullyApplied(M, N, vol, volN, r, c, d) ==
    /\ N # M
    /\ Relabelled(M, N, r, c, d)
    /\ IF d = HIGH
       THEN /\ HeightsOf(N) = [HeightsOf(M) EXCEPT ![r][c] = @ - 1]
            /\ volN = vol - 1
       ELSE /\ HeightsOf(N) = [HeightsOf(M) EXCEPT ![r + 1][c - 1] = @ + 1]
            /\ volN = vol + 1

NotApplied(M, N, vol, volN) == N = M /\ volN = vol

AppliedOrNot(M, N, vol, volN, r, c) ==
    \/ NotApplied(M, N, vol, volN)
    \/ FullyApplied(M, N, vol, volN, r, c, HIGH)
    \/ FullyApplied(M, N, vol, volN, r, c, LOW)

\* C19: every pass leaves each lattice either exactly as it was (types,
\* heights and volume) or with one move at the drawn cell applied in full
\* (the table rewrites of the four cells, the height of the anchor moved by
\* one and the volume moved by one); a pass that completes no flip, its
\* proposals being refused, leaves every type, every height and both
\* volumes unchanged.
Atomicity ==
    [][ /\ AppliedOrNot(matrix, matrix', matrixvol, matrixvol',
                        flipchoicerow', flipchoicecol')
        /\ AppliedOrNot(matrix2, matrix2', matrixvol2, matrixvol2',
                        flipchoicerow', flipchoicecol')
        /\ (flipcompleted' = flipcompleted =>
                /\ NotApplied(matrix, matrix', matrixvol, matrixvol')
                /\ NotApplied(matrix2, matrix2', matrixvol2, matrixvol2'))
      ]_vars

\* a pass applied a move to one lattice and refused the proposal of the
\* other, which kept the types, heights and volume it started with
AtomicityWitness ==
    /\ flipcompleted = 1
    /\ flipfailed = 1
    /\ TypesOf(matrix) # TypesOf(matrix2)
    /\ HeightsOf(matrix) # HeightsOf(matrix2)

(***************************************************************************)
(* The flip budget.                                                        *)
(***************************************************************************)
\* C20: the driver loop runs until the configured flip count is reached:
\* every pass of the loop starts with flipcompleted <= flipstodo, so that
\* once flipcompleted exceeds the budget the loop is left and the final
\* output is written.
BudgetEndsLoop == [][flipcompleted <= flipstodo]_vars

(***************************************************************************)
(* Failures of the input.                                                  *)
(***************************************************************************)
\* C21: when main has ended because an input file could not be opened, its
\* exit status is not 0, no lattice was parsed and no pass of the loop was
\* made.
OpenFailureExit ==
    pc = "exit" =>
        /\ exitstatus # 0
        /\ matrix = << >> /\ matrix2 = << >>
        /\ flipcompleted + flipfailed = 0

\* the types with which getweightratio indexes wts for the move (r, c, d),
\* which are the types the flip writes into the four cells
TypesUsed(ratio) == {ratio.base, ratio.xshift, ratio.yshift, ratio.dshift}

\* C22: in no reachable state, whatever bytes the input files held, is a
\* move admitted for which getweightratio indexes the weight array, or
\* the flip rewrites a cell, with a type outside 0..5.
MalformedNotUsed ==
    pc = "loop" =>
        \A i \in Rows, j \in Cols, d \in {LOW, HIGH} :
            /\ getisflippable(matrix, matrix2, nrows, ncols, STICKY, i, j, d) = 1
               => TypesUsed(getweightratio(wts, rho, matrix, i, j, d)) \subseteq Types
            /\ getisflippable2(matrix, matrix2, nrows, ncols, STICKY, i, j, d) = 1
               => TypesUsed(getweightratio2(wts, rho, matrix2, i, j, d)) \subseteq Types

(***************************************************************************)
(* Rejection at the boundary.  A lattice of the model has the cells of     *)
(* rows 0..R-1 and columns 0..C-1 and no other, so that an answer is       *)
(* computed only where no cell outside them is read.                       *)
(***************************************************************************)
\* the positions at which the move d is rejected for its position alone
OffLimits(R, C, r, c, d) ==
    \/ r < 0 \/ r >= R \/ c < 0 \/ c >= C
    \/ d = HIGH /\ (r = 0 \/ c = C - 1)
    \/ d = LOW /\ (r = R - 1 \/ c = 0)

\* C23: for every position (r, c), the positions one step outside the
\* lattice included, getisflippable and getisflippable2 answer 0 when
\* (r, c) is outside the lattice, when UP is asked with r = 0 or c = C-1 and
\* when DOWN is asked with r = R-1 or c = 0; they are functions of the
\* state, which they leave as it is, and read no cell outside the lattice.
BoundaryRejection ==
    \A r \in (-1)..nrows, c \in (-1)..ncols, d \in {LOW, HIGH} :
        OffLimits(nrows, ncols, r, c, d) =>
            /\ getisflippable(matrix, matrix2, nrows, ncols, STICKY, r, c, d) = 0
            /\ getisflippable2(matrix, matrix2, nrows, ncols, STICKY, r, c, d) = 0

\* a pass drew the last cell of row 0, whose type would admit UP, and UP
\* was rejected for both lattices
BoundaryWitness ==
    /\ flipchoicerow = 0
    /\ flipchoicecol = ncols - 1
    /\ matrix[0][ncols - 1].type \in {0, 5}
    /\ matrix2[0][ncols - 1].type \in {0, 5}
    /\ vcanfliphigh1 = 0
    /\ vcanfliphigh2 = 0

(***************************************************************************)
(* The snapshot and the parser.                                            *)
(***************************************************************************)
\* C24: for each lattice, the digit string print_text writes for it, read
\* back by parse with the same R and C, has at every cell the type the
\* lattice has (the lattices of the runs have all their types in 0..5).
ParseRoundTrip ==
    /\ TypesOf(parse(print_text(matrix, nrows, ncols), nrows, ncols))
           = TypesOf(matrix)
    /\ TypesOf(parse(print_text(matrix2, nrows, ncols), nrows, ncols))
           = TypesOf(matrix2)

\* a lattice that flipped, is not equal to its transpose, and is no longer
\* the lattice of the input file
ParseRoundTripWitness ==
    /\ flipcompleted >= 1
    /\ matrix # matrix2
    /\ matrix[0][1].type # matrix[1][0].type
    /\ matrix2[0][1].type # matrix2[1][0].type

UniformWeights == \A t \in Types : wts[t] = 1

\* the ratio of every admitted move of either lattice is num / den
EveryRatioIs(num, den) ==
    \A i \in Rows, j \in Cols, d \in {LOW, HIGH} :
        /\ getisflippable(matrix, matrix2, nrows, ncols, STICKY, i, j, d) = 1
           => getweightratio(wts, rho, matrix, i, j, d).num * den
                  = num * getweightratio(wts, rho, matrix, i, j, d).den
        /\ getisflippable2(matrix, matrix2, nrows, ncols, STICKY, i, j, d) = 1
           => getweightratio2(wts, rho, matrix2, i, j, d).num * den
                  = num * getweightratio2(wts, rho, matrix2, i, j, d).den

\* C26 as the specification states it: with all six weights 1, rho is 1,
\* every admitted move has ratio 1 and no draw on a flippable cell is
\* refused (flipfailed stays 0).
UniformAllAccepted ==
    UniformWeights => rho = 1 /\ EveryRatioIs(1, 1) /\ flipfailed = 0

\* C26: with all six weights 1, definerho yields rho = 2 (the greatest sum
\* of two products of the bi-flip possibilities) and every admitted move
\* has ratio exactly 1/2; at a cell flippable in both directions every draw
\* is accepted (the two ratios add up to 1), and at a cell flippable in one
\* direction the draws above 1/2 are refused.
UniformHalf ==
    UniformWeights =>
        /\ rho = 2
        /\ EveryRatioIs(1, 2)
        /\ \A i \in Rows, j \in Cols, u \in 0..RandMax :
             LET high == getisflippable(matrix, matrix2, nrows, ncols, STICKY, i, j, HIGH)
                 low  == getisflippable(matrix, matrix2, nrows, ncols, STICKY, i, j, LOW)
                 h    == HandleMatrix(wts, rho, matrix, matrixvol, flipcompleted,
                                      flipfailed, high, low, i, j, u)
             IN  /\ high + low = 2 => h.fc = flipcompleted + 1
                 /\ high + low = 1 => (h.fc = flipcompleted + 1 <=> 2 * u <= RandMax)

\* uniform weights, and a pass in which a draw on a flippable cell was
\* refused while the other lattice flipped
UniformHalfWitness ==
    /\ UniformWeights
    /\ flipfailed = 1
    /\ flipcompleted = 1
    /\ rho = 2

Weights2211 ==
    pc = "loop" /\ wts[0] = 2 /\ wts[1] = 2 /\ \A t \in 2..5 : wts[t] = 1

\* the product of the four post-move weights of every admitted move of
\* either lattice is at most rho
EveryProductBounded ==
    \A i \in Rows, j \in Cols, d \in {LOW, HIGH} :
        /\ getisflippable(matrix, matrix2, nrows, ncols, STICKY, i, j, d) = 1
           => getweightratio(wts, rho, matrix, i, j, d).num <= rho
        /\ getisflippable2(matrix, matrix2, nrows, ncols, STICKY, i, j, d) = 1
           => getweightratio2(wts, rho, matrix2, i, j, d).num <= rho

\* C27 as the specification states it: with weights (2,2,1,1,1,1) rho is at
\* least 4 and, for every lattice a run can hold and every admitted move,
\* the product of the post-move weights is at most rho.
Weights2211AnyLattice ==
    Weights2211 => rho >= 4 /\ EveryProductBounded

\* the input files held a six-vertex configuration: types in 0..5, adjacent
\* cells agreeing on the edge they share
SixVertexInput ==
    /\ iceinput
    /\ \A i \in Rows, j \in Cols :
           matrix[i][j].type \in Types /\ matrix2[i][j].type \in Types

\* C27: with weights (2,2,1,1,1,1) rho is at least 4 and, in every state of
\* a run started from a six-vertex configuration, the product of the
\* post-move weights of every admitted move is at most rho (every ratio is
\* at most 1).
Weights2211Bound ==
    Weights2211 /\ SixVertexInput => rho >= 4 /\ EveryProductBounded

\* weights (2,2,1,1,1,1), a six-vertex run that flipped, and an admitted
\* move of the upper lattice whose product is rho itself
Weights2211Witness ==
    /\ Weights2211
    /\ SixVertexInput
    /\ flipcompleted >= 1
    /\ \E i \in Rows, j \in Cols, d \in {LOW, HIGH} :
           /\ getisflippable(matrix, matrix2, nrows, ncols, STICKY, i, j, d) = 1
           /\ getweightratio(wts, rho, matrix, i, j, d).num = rho

(***************************************************************************)
(* The frozen lattice.                                                     *)
(***************************************************************************)
AllZero(M) == \A i \in Rows, j \in Cols : M[i][j].type = 0

\* C28: when every cell of both lattices has type 0, no cell is flippable
\* in either direction for either lattice, every pass, whatever it draws,
\* leaves both lattices, both volumes and both counters as they are, and
\* flipcompleted is 0: a run started there stays there.
AllZeroFrozen ==
    AllZero(matrix) /\ AllZero(matrix2) =>
        /\ \A i \in Rows, j \in Cols, d \in {LOW, HIGH} :
               /\ getisflippable(matrix, matrix2, nrows, ncols, STICKY, i, j, d) = 0
               /\ getisflippable2(matrix, matrix2, nrows, ncols, STICKY, i, j, d) = 0
        /\ \A kr \in 0..RandMax, kc \in 0..RandMax, u \in 0..RandMax :
               Pass(RunState, kr, kc, u, u) = RunState
        /\ flipcompleted = 0
        /\ flipfailed = 0

\* both lattices hold type 0 everywhere and a pass drew the cell (1, 1)
AllZeroWitness ==
    /\ AllZero(matrix)
    /\ AllZero(matrix2)
    /\ flipchoicerow = 1
    /\ flipchoicecol = 1

(***************************************************************************)
(* The height builder.                                                     *)
(***************************************************************************)
\* B is what the height builder returns for M: every cell of B.m has the
\* type it has in M and, as height, the number of cells of its row up to
\* it whose type is 0, 2 or 5, and B.total is the sum of these heights
BuiltFrom(B, M) ==
    /\ TypesOf(B.m) = TypesOf(M)
    /\ \A i \in Rows, j \in Cols : B.m[i][j].height = RunningCount(M, i, j)
    /\ B.total = SumHeights(B.m, nrows, ncols)

\* C29: for every lattice a run holds, whatever heights it stores,
\* setheights and setheights2 assign to every cell (i, j) the number of
\* cells of row i in columns 0..j whose type is 0, 2 or 5, return the sum
\* of the heights they assigned, and change no type.
HeightBuilder ==
    /\ BuiltFrom(setheights(matrix, nrows, ncols), matrix)
    /\ BuiltFrom(setheights(matrix2, nrows, ncols), matrix2)
    /\ BuiltFrom(setheights2(matrix, nrows, ncols), matrix)
    /\ BuiltFrom(setheights2(matrix2, nrows, ncols), matrix2)

\* a lattice that flipped and whose stored heights are no longer the running
\* counts: the builder assigns heights other than those stored
HeightBuilderWitness ==
    /\ flipcompleted >= 1
    /\ setheights(matrix, nrows, ncols).m # matrix
    /\ \E i \in Rows, j \in Cols : matrix[i][j].type = 4

(***************************************************************************)
(* Sinks are readers.                                                      *)
(***************************************************************************)
\* the cell types and heights of both lattices, both volumes and both counters
Lattices(S) ==
    [matrix |-> S.matrix, matrix2 |-> S.matrix2, matrixvol |-> S.matrixvol,
     matrixvol2 |-> S.matrixvol2, flipcompleted |-> S.flipcompleted,
     flipfailed |-> S.flipfailed]

\* from S to T nothing changed but the file named and the counter named
PureReader(S, T, file, counter) ==
    /\ Lattices(T) = Lattices(S)
    /\ T.printat = S.printat
    /\ T.files = [S.files EXCEPT ![file] = T.files[file]]
    /\ \A k \in {"tprint", "pprint", "cprint"} \ {counter} : T[k] = S[k]

\* C30: in every state the program reaches, a call of the snapshot, volume,
\* total weight or c-density sink, of either lattice, leaves every cell type,
\* every stored height, both volumes, flipcompleted and flipfailed as they
\* were; it changes nothing but its own file and, for the sinks that number
\* their files, the file-index counter.
SinksPureReaders ==
    \A S \in {MainState} :
        /\ PureReader(S, call_print_text(S), "text", "tprint")
        /\ PureReader(S, call_print_text2(S), "text2", "none")
        /\ PureReader(S, call_print_volume(S), "volume", "none")
        /\ PureReader(S, call_print_volume2(S), "volume2", "none")
        /\ PureReader(S, call_print_totalweight(S), "totalweight", "none")
        /\ PureReader(S, call_print_totalweight2(S), "totalweight2", "none")
        /\ PureReader(S, call_print_cdensity(S), "cdensity", "cprint")
        /\ PureReader(S, call_print_cdensity2(S), "cdensity2", "none")

\* every one of the four sinks has emitted for both lattices, the c-density
\* sink after a completed flip
SinksPureReadersWitness ==
    /\ pc = "loop"
    /\ tprint = 1
    /\ cprint = 1
    /\ flipcompleted >= 1
    /\ files.text # << >> /\ files.text2 # << >>
    /\ Len(files.volume) = 1 /\ Len(files.volume2) = 1
    /\ Len(files.totalweight) = 1 /\ Len(files.totalweight2) = 1
    /\ files.cdensity # << >> /\ files.cdensity2 # << >>

(***************************************************************************)
(* Upper then lower.                                                       *)
(***************************************************************************)
\* C31: in every iteration one cell (r, c) inside the lattice is drawn and
\* used for both lattices; the flags of the upper lattice are those of the
\* state before the iteration; the flags of the lower lattice are taken once
\* the upper lattice is done, so with STICKY = 1 DOWN on the lower lattice is
\* admitted exactly when its types allow it and its height at (r, c) is below
\* the height the upper lattice has there after this iteration's flip; and
\* each lattice is the outcome of its own handler at (r, c) for a draw of its
\* own.
UpperThenLower ==
    [][LET r == flipchoicerow'
           c == flipchoicecol'
       IN  /\ r \in Rows /\ c \in Cols
           /\ vcanfliphigh1' = getisflippable(matrix, matrix2, nrows, ncols,
                                              STICKY, r, c, HIGH)
           /\ vcanfliplow1' = getisflippable(matrix, matrix2, nrows, ncols,
                                             STICKY, r, c, LOW)
           /\ vcanfliphigh2' = Bit(CanFlipUp(matrix2, nrows, ncols, r, c))
           /\ vcanfliplow2' =
                  Bit(/\ CanFlipDown(matrix2, nrows, ncols, r, c)
                      /\ STICKY = 1 =>
                             matrix2[r][c].height < matrix'[r][c].height)
           /\ \E u1 \in 0..RandMax :
                  matrix' = HandleMatrix(wts, rho, matrix, matrixvol,
                                         flipcompleted, flipfailed,
                                         vcanfliphigh1', vcanfliplow1',
                                         r, c, u1).m
           /\ \E u2 \in 0..RandMax :
                  matrix2' = HandleMatrix2(wts, rho, matrix2, matrixvol2,
                                           flipcompleted, flipfailed,
                                           vcanfliphigh2', vcanfliplow2',
                                           r, c, u2).m]_vars

\* STICKY = 1; the upper lattice has just flipped UP at the drawn cell, which
\* brought its height there down to the height of the lower lattice; the
\* types of the lower lattice allow DOWN at that cell and DOWN was not
\* admitted
UpperThenLowerWitness ==
    /\ STICKY = 1
    /\ pc = "loop"
    /\ flipcompleted = 2
    /\ vcanfliphigh1 = 1
    /\ matrixvol = matrixvol2
    /\ CanFlipDown(matrix2, nrows, ncols, flipchoicerow, flipchoicecol)
    /\ matrix[flipchoicerow][flipchoicecol].height
           = matrix2[flipchoicerow][flipchoicecol].height
    /\ vcanfliplow2 = 0

(***************************************************************************)
(* The c-density map.                                                      *)
(***************************************************************************)
\* the largest step the map is computed for
MaxStep == 2

\* the cells (i, j) with s/2 <= i < R - s/2 and s/2 <= j < C - s/2, row major
Interior(R, C, s) ==
    LET cells == {ij \in (0..(R - 1)) \X (0..(C - 1)) :
                     /\ s <= 2 * ij[1] /\ 2 * ij[1] < 2 * R - s
                     /\ s <= 2 * ij[2] /\ 2 * ij[2] < 2 * C - s}
        before(x, y) == x[1] < y[1] \/ (x[1] = y[1] /\ x[2] < y[2])
    IN  [n \in 1..Cardinality(cells) |->
            CHOOSE x \in cells :
                Cardinality({y \in cells : before(y, x)}) = n - 1]

\* the number of cells (i + k, j + l) of M with |k| <= s/2 and |l| <= s/2
\* whose type is 4 or 5
CVertices(M, R, C, i, j, s) ==
    Cardinality({kl \in (-R..R) \X (-C..C) :
        /\ 2 * kl[1] <= s /\ -2 * kl[1] <= s
        /\ 2 * kl[2] <= s /\ -2 * kl[2] <= s
        /\ M[i + kl[1]][j + kl[2]].type \in {4, 5}})

DensityMapOf(M, R, C, s) ==
    /\ cdensityReads(R, C, s) \subseteq (0..(R - 1)) \X (0..(C - 1))
    /\ Len(cdensityOf(M, R, C, s)) = Len(Interior(R, C, s))
    /\ \A n \in 1..Len(Interior(R, C, s)) :
           LET ij == Interior(R, C, s)[n]
               v  == cdensityOf(M, R, C, s)[n]
           IN  /\ v = <<CVertices(M, R, C, ij[1], ij[2], s), (s + 1) * (s + 1)>>
               /\ 0 <= v[1] /\ v[1] <= v[2]

\* C32: for every lattice the program reaches and every even step s below
\* the number of rows and of columns, print_cdensity reads cells of the
\* lattice only and writes one value for each cell (i, j) with
\* s/2 <= i < R - s/2 and s/2 <= j < C - s/2, row by row: the number of cells
\* (i + k, j + l), |k| <= s/2 and |l| <= s/2, of type 4 or 5, over
\* (s + 1) * (s + 1), a value between 0 and 1.
DensityMap ==
    \A s \in {x \in 0..MaxStep : x % 2 = 0} :
        (s < nrows /\ s < ncols) =>
            /\ DensityMapOf(matrix, nrows, ncols, s)
            /\ DensityMapOf(matrix2, nrows, ncols, s)

\* a 3 x 3 lattice after an accepted flip and an emission of the c-density
\* sink, whose map for the step 2 is the one value k/9 with 0 < k < 9 and
\* whose map for the step 0 has nine values
DensityMapWitness ==
    /\ nrows = 3 /\ ncols = 3
    /\ flipcompleted >= 1
    /\ cprint = 1
    /\ Len(cdensityOf(matrix, 3, 3, 2)) = 1
    /\ cdensityOf(matrix, 3, 3, 2)[1][1] \in 1..8
    /\ cdensityOf(matrix, 3, 3, 2)[1][2] = 9
    /\ Len(cdensityOf(matrix, 3, 3, 0)) = 9

(***************************************************************************)
(* The ratio and the flip relabel alike.                                   *)
(***************************************************************************)
\* the types of the base, of the cell in its row, of the cell in its column
\* and of the diagonal cell of the move (r, c, d) in the lattice N
BlockTypes(N, r, c, d) ==
    LET dr == IF d # 0 THEN -1 ELSE 1
        dc == IF d # 0 THEN 1 ELSE -1
    IN  [base |-> N[r][c].type, xshift |-> N[r][c + dc].type,
         yshift |-> N[r + dr][c].type, dshift |-> N[r + dr][c + dc].type]

\* the ratio g multiplied the weights of the types the block has in N
RatioOfBlock(g, N, r, c, d) ==
    LET b == BlockTypes(N, r, c, d)
    IN  /\ g.base = b.base /\ g.xshift = b.xshift
        /\ g.yshift = b.yshift /\ g.dshift = b.dshift
        /\ g.num = wts[b.base] * wts[b.xshift] * wts[b.yshift] * wts[b.dshift]
        /\ g.den = rho

\* C33: in every state the program reaches, for every cell and direction
\* that getisflippable admits on the upper lattice, the four weights that
\* getweightratio multiplies are the weights of the types executeflip leaves
\* in the base, the cell in its row, the cell in its column and the diagonal
\* cell, and the product is over rho; the same for getisflippable2,
\* getweightratio2 and executeflip2 on the lower lattice.
RatioMatchesFlip ==
    \A r \in Rows, c \in Cols, d \in {LOW, HIGH} :
        /\ getisflippable(matrix, matrix2, nrows, ncols, STICKY, r, c, d) = 1
               => RatioOfBlock(getweightratio(wts, rho, matrix, r, c, d),
                               executeflip(matrix, matrixvol, r, c, d).m,
                               r, c, d)
        /\ getisflippable2(matrix, matrix2, nrows, ncols, STICKY, r, c, d) = 1
               => RatioOfBlock(getweightratio2(wts, rho, matrix2, r, c, d),
                               executeflip2(matrix2, matrixvol2, r, c, d).m,
                               r, c, d)

\* after an accepted flip, with weights that are not all equal, the upper
\* lattice admits UP at a cell where the flip retypes all four cells of the
\* block, the right cell from 3 to 5
RatioMatchesFlipWitness ==
    /\ flipcompleted >= 1
    /\ wts[0] # wts[1]
    /\ \E r \in Rows, c \in Cols :
           /\ getisflippable(matrix, matrix2, nrows, ncols, STICKY, r, c, HIGH) = 1
           /\ matrix[r][c + 1].type = 3
           /\ LET b == BlockTypes(matrix, r, c, HIGH)
                   g == getweightratio(wts, rho, matrix, r, c, HIGH)
               IN  /\ g.base # b.base /\ g.xshift = 5
                   /\ g.yshift # b.yshift /\ g.dshift # b.dshift

(***************************************************************************)
(* The routines of the two lattices mirror each other.                     *)
(***************************************************************************)
\* on the lattice L with the volume vol, the routines of the upper lattice
\* and those of the lower lattice agree at the cell (r, c): on the two
\* flags, and for every admitted direction on the ratio and on the lattice
\* and volume after the flip, and for every draw on what the handler of
\* main leaves
MirroredAt(L, vol, r, c) ==
    LET h == getisflippable(L, L, nrows, ncols, 0, r, c, HIGH)
        l == getisflippable(L, L, nrows, ncols, 0, r, c, LOW)
    IN  /\ h = getisflippable2(L, L, nrows, ncols, 0, r, c, HIGH)
        /\ l = getisflippable2(L, L, nrows, ncols, 0, r, c, LOW)
        /\ \A d \in {LOW, HIGH} :
               (IF d = HIGH THEN h ELSE l) = 1 =>
                   /\ getweightratio(wts, rho, L, r, c, d)
                          = getweightratio2(wts, rho, L, r, c, d)
                   /\ updatepositions(L, r, c, d) = updatepositions2(L, r, c, d)
                   /\ executeflip(L, vol, r, c, d) = executeflip2(L, vol, r, c, d)
        /\ \A u \in 0..RandMax :
               HandleMatrix(wts, rho, L, vol, 0, 0, h, l, r, c, u)
                   = HandleMatrix2(wts, rho, L, vol, 0, 0, h, l, r, c, u)

Mirrored(L, vol) ==
    /\ setheights(L, nrows, ncols) = setheights2(L, nrows, ncols)
    /\ \A r \in Rows, c \in Cols : MirroredAt(L, vol, r, c)

\* C34: with STICKY = 0, on every lattice the program reaches, upper or
\* lower, for every cell, direction and draw, the routines of matrix 1
\* (getisflippable, getweightratio, updatepositions, executeflip,
\* setheights and the handler of main) and those of matrix 2 give the same
\* flags, the same ratio and the same types, heights and volume.
MirroredRoutines ==
    STICKY = 0 => Mirrored(matrix, matrixvol) /\ Mirrored(matrix2, matrixvol2)

\* STICKY = 0, the two lattices have come apart by an accepted flip, and
\* the lower lattice has a cell that both sets of routines can flip both
\* ways and a draw that makes both handlers flip it
MirroredRoutinesWitness ==
    /\ STICKY = 0
    /\ flipcompleted >= 1
    /\ TypesOf(matrix) # TypesOf(matrix2)
    /\ \E r \in Rows, c \in Cols :
           /\ getisflippable(matrix2, matrix2, nrows, ncols, 0, r, c, HIGH) = 1
           /\ getisflippable2(matrix2, matrix2, nrows, ncols, 0, r, c, LOW) = 1
           /\ \E u \in 0..RandMax :
                  HandleMatrix2(wts, rho, matrix2, matrixvol2, 0, 0, 1, 1, r, c, u).m
                      # matrix2

(***************************************************************************)
(* One height per flip is enough.                                          *)
(***************************************************************************)
\* a rebuild of the heights of M by build would change no height, and vol
\* is the total the rebuild returns and the volume print_volume writes
NothingStale(M, vol, build) ==
    /\ build.m = M
    /\ build.total = vol
    /\ print_volume(M, nrows, ncols) = vol

\* C35: if the input lattice is a six-vertex configuration (adjacent cells
\* agree on the edge they share) and the heights were built by setheights,
\* then in every state the program reaches the stored height of every cell
\* is the running count of the types 0, 2 and 5 of its row up to its column
\* (a rebuild by setheights would change nothing) and each tracked volume is
\* the volume print_volume computes from the types.
SingleAnchorExact ==
    iceinput =>
        /\ NothingStale(matrix, matrixvol, setheights(matrix, nrows, ncols))
        /\ NothingStale(matrix2, matrixvol2, setheights2(matrix2, nrows, ncols))

\* a 3 x 3 six-vertex input after two accepted flips, of which the upper
\* lattice took at least one, that left the two volumes different
SingleAnchorExactWitness ==
    /\ iceinput
    /\ nrows = 3
    /\ flipcompleted = 2
    /\ matrixvol # matrixvol2
    /\ TypesOf(matrix) # TypesOf(matrix2)
    /\ print_volume(matrix, nrows, ncols) = matrixvol

(***************************************************************************)
(* A flip and its reverse.                                                 *)
(***************************************************************************)
\* UP is admitted at (r, c) and the right and the up cell have types the
\* table of UP lists
UpListed(L, r, c) ==
    /\ getisflippable(L, L, nrows, ncols, 0, r, c, HIGH) = 1
    /\ L[r][c + 1].type \in {3, 4}
    /\ L[r - 1][c].type \in {2, 4}

\* DOWN is admitted at (r, c) and the left and the down cell have types the
\* table of DOWN lists
DownListed(L, r, c) ==
    /\ getisflippable(L, L, nrows, ncols, 0, r, c, LOW) = 1
    /\ L[r][c - 1].type \in {5, 3}
    /\ L[r + 1][c].type \in {5, 2}

\* once the flip E was made, the direction d is admitted at (r, c) and
\* the flip there gives back the lattice L and the volume vol
Undone(L, vol, E, r, c, d) ==
    /\ getisflippable(E.m, E.m, nrows, ncols, 0, r, c, d) = 1
    /\ executeflip(E.m, E.vol, r, c, d) = [m |-> L, vol |-> vol]

Reversible(L, vol) ==
    \A r \in Rows, c \in Cols :
        /\ UpListed(L, r, c)
               => Undone(L, vol, executeflip(L, vol, r, c, HIGH), r - 1, c + 1, LOW)
        /\ DownListed(L, r, c)
               => Undone(L, vol, executeflip(L, vol, r, c, LOW), r + 1, c - 1, HIGH)

\* C36: with STICKY = 0, on every lattice the program reaches, if UP is
\* admitted at (r, c) and the right and up cells have types the table lists,
\* then after UP at (r, c) DOWN is admitted at (r-1, c+1) and restores every
\* type, every height and the volume; and if DOWN is admitted at (r, c) and
\* the left and down cells have listed types, then after DOWN at (r, c) UP is
\* admitted at (r+1, c-1) and restores every type, every height and the
\* volume.
FlipsReversible ==
    STICKY = 0 => Reversible(matrix, matrixvol) /\ Reversible(matrix2, matrixvol2)

\* STICKY = 0; the upper lattice has just flipped UP at the drawn cell, whose
\* right and up cells had listed types, and DOWN at the cell up and to the
\* right of it is admitted and would restore the lattice as it was
FlipsReversibleWitness ==
    /\ STICKY = 0
    /\ flipcompleted = 1
    /\ vcanfliphigh1 = 1 /\ vcanfliplow1 = 0 /\ vcanfliplow2 = 0
    /\ matrixvol = matrixvol2 - 1
    /\ flipchoicerow > 0 /\ flipchoicecol < ncols - 1
    /\ DownListed(matrix, flipchoicerow - 1, flipchoicecol + 1)
    /\ LET B == executeflip(matrix, matrixvol, flipchoicerow - 1,
                            flipchoicecol + 1, LOW)
       IN  /\ UpListed(B.m, flipchoicerow, flipchoicecol)
           /\ executeflip(B.m, B.vol, flipchoicerow, flipchoicecol, HIGH)
                  = [m |-> matrix, vol |-> matrixvol]
           /\ B.vol = matrixvol + 1

(***************************************************************************)
(* The frame of an accepted flip.                                          *)
(***************************************************************************)
\* the four cells of the move (r, c, d)
Block(r, c, d) ==
    IF d # 0
    THEN {<<r, c>>, <<r - 1, c + 1>>, <<r, c + 1>>, <<r - 1, c>>}
    ELSE {<<r, c>>, <<r + 1, c - 1>>, <<r, c - 1>>, <<r + 1, c>>}

\* from M, vol to N, volN: types changed inside the block of (r, c, d)
\* only, one height changed, by one and inside the block, and the volume
\* changed by one
WithinFrame(M, N, vol, volN, r, c, d) ==
    /\ Block(r, c, d) \subseteq Rows \X Cols
    /\ \A i \in Rows, j \in Cols :
           <<i, j>> \notin Block(r, c, d) => N[i][j] = M[i][j]
    /\ Cardinality({ij \in Rows \X Cols :
                        N[ij[1]][ij[2]].height # M[ij[1]][ij[2]].height}) = 1
    /\ \A i \in Rows, j \in Cols :
           N[i][j].height - M[i][j].height \in {-1, 0, 1}
    /\ volN - vol \in {-1, 1}

\* the lattice is as it was, or one flip at (r, c) was made on it
FlippedWithinFrame(M, N, vol, volN, r, c) ==
    \/ N = M /\ volN = vol
    \/ \E d \in {LOW, HIGH} : WithinFrame(M, N, vol, volN, r, c, d)

\* C37: in every iteration, a lattice on which a flip at the drawn cell
\* (r, c) was accepted differs from what it was in the types of the four
\* cells of the block of the move at most, in one stored height and in its
\* volume; a lattice on which no flip was accepted, the other lattice when
\* one flip was accepted in the iteration, keeps every type, every height
\* and its volume.
FlipFrame ==
    [][LET r == flipchoicerow'
           c == flipchoicecol'
       IN  /\ FlippedWithinFrame(matrix, matrix', matrixvol, matrixvol', r, c)
           /\ FlippedWithinFrame(matrix2, matrix2', matrixvol2, matrixvol2', r, c)
           /\ flipcompleted' = flipcompleted =>
                  /\ matrix' = matrix /\ matrixvol' = matrixvol
                  /\ matrix2' = matrix2 /\ matrixvol2' = matrixvol2
           /\ flipcompleted' = flipcompleted + 1 =>
                  \/ matrix' = matrix /\ matrixvol' = matrixvol
                  \/ matrix2' = matrix2 /\ matrixvol2' = matrixvol2]_vars

\* on a 3 x 3 lattice one flip was accepted, UP on the upper lattice at the
\* centre: the four cells of its block changed type, the lower lattice kept
\* the types and heights the upper lattice had, and the cell below the centre
\* is the same in both
FlipFrameWitness ==
    /\ nrows = 3 /\ ncols = 3
    /\ flipcompleted = 1
    /\ flipchoicerow = 1 /\ flipchoicecol = 1
    /\ vcanfliphigh1 = 1
    /\ matrixvol = matrixvol2 - 1
    /\ \A ij \in Block(1, 1, HIGH) :
           matrix[ij[1]][ij[2]].type # matrix2[ij[1]][ij[2]].type
    /\ \A ij \in (Rows \X Cols) \ Block(1, 1, HIGH) :
           matrix[ij[1]][ij[2]] = matrix2[ij[1]][ij[2]]
    /\ matrix[1][1].height = matrix2[1][1].height - 1

(***************************************************************************)
(* Index safety.                                                           *)
(***************************************************************************)
\* every cell the kernel touches for the move (r, c, d) is a cell of the
\* lattice
KernelInside(r, c, d) ==
    getweightratioCells(r, c, d) \cup executeflipCells(r, c, d)
        \subseteq Rows \X Cols

\* C38: in every state the driver reaches, with at least one row and one
\* column, every draw gives a cell (r, c) with 0 <= r < R and 0 <= c < C, and
\* so is the cell drawn last; for every direction that getisflippable or
\* getisflippable2 admits at a cell, and so for every direction the handlers
\* of main call getweightratio, getweightratio2, executeflip or executeflip2
\* with (the flags of the last iteration), every cell these routines and
\* the updatepositions routines read or write has its row in 0..R-1 and its
\* column in 0..C-1.
IndexSafety ==
    (pc = "loop" /\ nrows >= 1 /\ ncols >= 1) =>
        /\ \A k \in 0..RandMax :
               /\ getflippablepositionrow(nrows, k) \in Rows
               /\ getflippablepositioncol(ncols, k) \in Cols
        /\ flipchoicerow \in Rows /\ flipchoicecol \in Cols
        /\ \A r \in Rows, c \in Cols, d \in {LOW, HIGH} :
               (\/ getisflippable(matrix, matrix2, nrows, ncols, STICKY, r, c, d) = 1
                \/ getisflippable2(matrix, matrix2, nrows, ncols, STICKY, r, c, d) = 1)
                   => KernelInside(r, c, d)
        /\ (vcanfliphigh1 = 1 \/ vcanfliphigh2 = 1)
               => KernelInside(flipchoicerow, flipchoicecol, HIGH)
        /\ (vcanfliplow1 = 1 \/ vcanfliplow2 = 1)
               => KernelInside(flipchoicerow, flipchoicecol, LOW)

\* the last cell drawn is in the last row and not in the first column, UP
\* was admitted there and accepted on the upper lattice; the block of DOWN
\* at that cell and the blocks of both moves at the corner (0, 0) leave the
\* lattice
IndexSafetyWitness ==
    /\ pc = "loop"
    /\ flipcompleted = 1
    /\ flipchoicerow = nrows - 1
    /\ flipchoicecol > 0
    /\ vcanfliphigh1 = 1 /\ vcanfliplow1 = 0
    /\ vcanfliphigh2 = 1
    /\ matrixvol = matrixvol2 - 1
    /\ ~ KernelInside(flipchoicerow, flipchoicecol, LOW)
    /\ ~ KernelInside(0, 0, HIGH)
    /\ ~ KernelInside(0, 0, LOW)

(***************************************************************************)
(* The cadence of the sinks.                                               *)
(***************************************************************************)
\* at the head of the iteration flipcompleted exceeds the threshold of the
\* sink by more than its offset
Due(sink, offset) == flipcompleted > printat[sink] + offset

\* the threshold of the sink is raised by its interval if the sink is due
\* and kept if not, and a sink that is due has flipcompleted above the
\* start of its threshold by more than its offset
Cadence(sink, offset) ==
    /\ printat'[sink] = IF Due(sink, offset)
                        THEN printat[sink] + interval[sink]
                        ELSE printat[sink]
    /\ Due(sink, offset) => flipcompleted > FirstThresholds[sink] + offset

\* a file of numbered snapshots got the snapshot numbered k if the sink is
\* due, and is as it was if not
Numbered(file, due, k, content) ==
    files'[file] = IF due THEN Written(files[file], k, content) ELSE files[file]

\* a file of lines got one line more if the sink is due, and is as it was
\* if not
Appended(file, due, line) ==
    files'[file] = IF due THEN Append(files[file], line) ELSE files[file]

====
